---- MODULE Spec2Model ----
(***************************************************************************)
(* Model of the MediaCodec decoder plugin of alxr_engine                   *)
(* (src/src/alxr_engine/decoderplugin_mediacodec.cpp): the FrameIndexMap   *)
(* correlation table, the decoder session held in m_codecCtx, the          *)
(* submitting thread (QueuePacket), the decode-consumer thread (Run), the  *)
(* codec's asynchronous callbacks and the image-ready callback.            *)
(*                                                                         *)
(* Two specifications share the variables:                                 *)
(*   Spec     the decoder pipeline, all threads interleaved;               *)
(*   MapSpec  a FrameIndexMap driven by arbitrary set/get/get_clear calls. *)
(***************************************************************************)
EXTENDS Integers, Sequences, FiniteSets, TLC

(***************************************************************************)
(* Bounds of the model.                                                    *)
(***************************************************************************)
\* Slots of the FrameIndexMap (the constructor argument N; XrImageListener
\* passes 4096, line 96).
MapSize == 2
\* Largest steady-clock reading (microseconds) MakePTS returns.
MaxPTS == 2
\* Tracking frame indices are 0..MaxFrameIndex, and NullIndex.
MaxFrameIndex == 1
\* Calls of QueuePacket in one behaviour.
MaxPackets == 2
\* Input buffers, and output buffers, the codec owns in Spec.
NumCodecBuffers == 1
\* Input buffers, and output buffers, the codec owns in QueueSpec.
NumQueueSpecBuffers == 2
\* Capacity of m_inputBufferQueue (120, line 249).
InputQueueCapacity == 1
\* Capacity of m_outputBufferQueue (120, line 250).
OutputQueueCapacity == 2
\* Calls on the FrameIndexMap in one behaviour of MapSpec.
MaxOps == 3
\* Bits of the significand of a float (24 for the float of the program).
PrecisionBits == 3
\* Calls of filter and reset on the OneEuroFilter in one behaviour of
\* FilterSpec.
MaxCalls == 3
\* The ticks a pose filter is driven with one sample.
Ticks == 100

(***************************************************************************)
(* FrameIndexMap (lines 44-81).  A map value is the vector m_frameMap.     *)
(***************************************************************************)
\* FrameIndex(-1): the all-ones 64-bit value, outside 0..MaxFrameIndex.
NullIndex == -1

FrameIndices == 0..MaxFrameIndex
FrameValues == FrameIndices \cup {NullIndex}
TimeStamps == 0..MaxPTS

\* std::vector<std::atomic<uint64_t>>(N) value-initialises its elements:
\* every slot of a new map holds 0.
FrameIndexMap(N) == [i \in 0..(N - 1) |-> 0]

index_wrongSlot(m, ts) == 0
index(m, ts) == ts % Cardinality(DOMAIN m)

set_firstWriteWins(m, ts, newIdx) ==
    IF m[index(m, ts)] \in {0, NullIndex} THEN [m EXCEPT ![index(m, ts)] = newIdx] ELSE m
set(m, ts, newIdx) == [m EXCEPT ![index(m, ts)] = newIdx]

get(m, ts) == m[index(m, ts)]

\* exchange(NullIndex): the value read and the map left behind.
get_clear_noReset(m, ts) == [ret |-> m[index(m, ts)], map |-> m]
get_clear(m, ts) ==
    [ret |-> m[index(m, ts)], map |-> [m EXCEPT ![index(m, ts)] = NullIndex]]

(***************************************************************************)
(* XrImageListener::OnImageAvailable, line 196: the image timestamp        *)
(* (nanoseconds) times 0.001 in double, truncated to uint64.  0.001 is     *)
(* within 2.1e-17 (relative) of 1/1000, so for timestamps below 2^53 the   *)
(* product rounds to the quotient when the timestamp is a multiple of      *)
(* 1000, and truncates to the floor otherwise.                             *)
(***************************************************************************)
NsToUs_noScale(presentationTimeNs) == presentationTimeNs
NsToUs(presentationTimeNs) == presentationTimeNs \div 1000

\* The codec stamps a rendered output buffer with its presentation time in
\* nanoseconds.
UsToNs(presentationTimeUs) == presentationTimeUs * 1000

(***************************************************************************)
(* Session construction (lines 420-505).  `step` is the first step of the  *)
(* construction that fails, or "ok".                                       *)
(***************************************************************************)
BuildSteps ==
    {"imageReader", "imageListener", "surface", "createCodec", "mediaFormat",
     "asyncCallback", "configure", "start", "ok"}

\* XrImageListener constructor and IsValid (lines 121-139, 157): the reader
\* and the program pointer are both reset when either step fails.
IsValid(step) ==
    LET imageReader == step \notin {"imageReader", "imageListener"}
        programPtr == step \notin {"imageReader", "imageListener"}
    IN  imageReader \/ programPtr

\* GetWindow (lines 159-168): TRUE when a surface handle is returned.
GetWindow(step) == step \notin {"imageReader", "imageListener", "surface"}

\* MakeStartedCodec (lines 420-483): TRUE when a started codec is returned.
MakeStartedCodec(step, surface_handle) ==
    IF ~surface_handle THEN FALSE
    ELSE IF step = "createCodec" THEN FALSE
    ELSE IF step = "mediaFormat" THEN FALSE
    ELSE IF step = "asyncCallback" THEN FALSE
    ELSE IF step = "configure" THEN FALSE
    ELSE IF step = "start" THEN FALSE
    ELSE TRUE

\* MakeCodecContext (lines 485-505): TRUE when a CodecCtx is returned.
MakeCodecContext_keepFailed(step) == IsValid(step)
MakeCodecContext(step) ==
    IF ~IsValid(step) THEN FALSE
    ELSE IF ~GetWindow(step) THEN FALSE
    ELSE MakeStartedCodec(step, GetWindow(step))

(***************************************************************************)
(* one_euro_filter.h: the low-pass filters and OneEuroFilter.              *)
(*                                                                         *)
(* scalar_type is float (lines 36, 62, 90, 113): a binary floating-point   *)
(* number with a significand of fixed width, every operation rounded to    *)
(* nearest, ties to even.  A float is m * 2^e, written [m, e] with m odd   *)
(* (or m = 0 and e = 0) and |m| < 2^PrecisionBits; the exponent range is   *)
(* not modelled (no overflow, no subnormals, no infinities).               *)
(***************************************************************************)
Abs(n) == IF n < 0 THEN -n ELSE n

RECURSIVE BitLength(_)
BitLength(n) == IF n = 0 THEN 0 ELSE 1 + BitLength(n \div 2)

RECURSIVE Canonical(_, _)
Canonical(m, e) ==
    IF m = 0 THEN [m |-> 0, e |-> 0]
    ELSE IF Abs(m) % 2 = 0 THEN Canonical((Abs(m) \div 2) * (IF m < 0 THEN -1 ELSE 1), e + 1)
    ELSE [m |-> m, e |-> e]

\* m * 2^e rounded to the significand's width, ties to even, when the
\* low k bits of |m| do not fit.
RoundAt(m, e, k) ==
    IF k <= 0 THEN Canonical(m, e)
    ELSE LET q == Abs(m) \div 2^k
             r == Abs(m) % 2^k
             half == 2^(k - 1)
             up == r > half \/ (r = half /\ q % 2 = 1)
         IN  Canonical((IF up THEN q + 1 ELSE q) * (IF m < 0 THEN -1 ELSE 1), e + k)

\* The float nearest to m * 2^e, ties to even.
RoundToFloat(m, e) == RoundAt(m, e, BitLength(Abs(m)) - PrecisionBits)

\* The float nearest to (n / d) * 2^e, d > 0: the quotient to two bits more
\* than the significand, with a sticky bit for the remainder.
ScaledRatio(n, d, e, s) ==
    LET q == (Abs(n) * 2^s) \div d
        sticky == IF (Abs(n) * 2^s) % d = 0 THEN 0 ELSE 1
    IN  RoundToFloat((2 * q + sticky) * (IF n < 0 THEN -1 ELSE 1), e - s - 1)
RoundRatio(n, d, e) == ScaledRatio(n, d, e, PrecisionBits + 2 + BitLength(d))

Zero == [m |-> 0, e |-> 0]
One == [m |-> 1, e |-> 0]

FloatNeg(a) == [m |-> -a.m, e |-> a.e]

FloatAdd(a, b) ==
    IF a.m = 0 THEN b
    ELSE IF b.m = 0 THEN a
    ELSE LET lo == IF a.e < b.e THEN a.e ELSE b.e
         IN  RoundToFloat(a.m * 2^(a.e - lo) + b.m * 2^(b.e - lo), lo)

FloatSub(a, b) == FloatAdd(a, FloatNeg(b))

FloatMul(a, b) ==
    IF a.m = 0 \/ b.m = 0 THEN Zero ELSE RoundToFloat(a.m * b.m, a.e + b.e)

\* b is not zero.
FloatDiv(a, b) ==
    IF a.m = 0 THEN Zero
    ELSE RoundRatio(IF b.m < 0 THEN -a.m ELSE a.m, Abs(b.m), a.e - b.e)

\* a < b
FloatLess(a, b) ==
    LET lo == IF a.e < b.e THEN a.e ELSE b.e
    IN  a.m * 2^(a.e - lo) < b.m * 2^(b.e - lo)

\* std::sqrt of a float a >= 0, correctly rounded.
\* The integer square root of n.
IntegerSqrt(n) == CHOOSE r \in 0..n : r * r <= n /\ n < (r + 1) * (r + 1)
RootOf(m2, e2, r) ==
    RoundToFloat(2 * r + (IF r * r = m2 THEN 0 ELSE 1),
                 (e2 \div 2) - (PrecisionBits + 1) - 1)
ScaledSqrt(m2, e2) == RootOf(m2, e2, IntegerSqrt(m2))
FloatSqrt(a) ==
    IF a.m = 0 THEN Zero
    ELSE IF a.e % 2 = 1
         THEN ScaledSqrt(2 * a.m * 4^(PrecisionBits + 1), a.e - 1)
         ELSE ScaledSqrt(a.m * 4^(PrecisionBits + 1), a.e)

\* One unit in the last place of a: the distance between the floats of
\* a's binade (for a # 0).
Ulp(a) == [m |-> 1, e |-> a.e + BitLength(Abs(a.m)) - PrecisionBits]

\* |a - b| <= c, exactly.
WithinDistance(a, b, c) ==
    LET lo == IF a.e < b.e THEN (IF a.e < c.e THEN a.e ELSE c.e)
              ELSE (IF b.e < c.e THEN b.e ELSE c.e)
    IN  Abs(a.m * 2^(a.e - lo) - b.m * 2^(b.e - lo)) <= c.m * 2^(c.e - lo)

\* Eigen::Vector3f: a tuple of three floats (dimension, line 34); the
\* operations the filters use are componentwise.
Vector3Zero == <<Zero, Zero, Zero>>
VecScale(s, v) == <<FloatMul(s, v[1]), FloatMul(s, v[2]), FloatMul(s, v[3])>>
VecAdd(a, b) == <<FloatAdd(a[1], b[1]), FloatAdd(a[2], b[2]), FloatAdd(a[3], b[3])>>
VecSub(a, b) == <<FloatSub(a[1], b[1]), FloatSub(a[2], b[2]), FloatSub(a[3], b[3])>>

\* stableNorm: the square root of the sum of the squares.
VecNorm(v) ==
    FloatSqrt(FloatAdd(FloatAdd(FloatMul(v[1], v[1]), FloatMul(v[2], v[2])),
                       FloatMul(v[3], v[3])))

\* Eigen::Quaternionf: the coefficients w, x, y, z.
Quat(w, x, y, z) == [w |-> w, x |-> x, y |-> y, z |-> z]
QuatIdentity == Quat(One, Zero, Zero, Zero)

QuatDot(a, b) ==
    FloatAdd(FloatAdd(FloatAdd(FloatMul(a.x, b.x), FloatMul(a.y, b.y)),
                      FloatMul(a.z, b.z)),
             FloatMul(a.w, b.w))

\* NumTraits<float>::epsilon(): the distance from 1 to the next float.
Epsilon == [m |-> 1, e |-> 1 - PrecisionBits]

\* Quaternion::slerp takes its linear branch when |a.b| >= 1 - epsilon.
FloatAbs(a) == IF a.m < 0 THEN FloatNeg(a) ELSE a
SlerpIsLinear(a, b) == ~FloatLess(FloatAbs(QuatDot(a, b)), FloatSub(One, Epsilon))

\* scale0 * a + scale1 * b, coefficient by coefficient.
QuatBlend(scale0, a, scale1, b) ==
    Quat(FloatAdd(FloatMul(scale0, a.w), FloatMul(scale1, b.w)),
         FloatAdd(FloatMul(scale0, a.x), FloatMul(scale1, b.x)),
         FloatAdd(FloatMul(scale0, a.y), FloatMul(scale1, b.y)),
         FloatAdd(FloatMul(scale0, a.z), FloatMul(scale1, b.z)))

\* a.slerp(t, b).  The linear branch is scale0 * a + scale1 * b with
\* scale0 = 1 - t and scale1 = t (negated when a.b < 0); the other branch
\* goes through acos and sin, which the model does not compute: its result is
\* `unmodelled`.
slerp(a, t, b, unmodelled) ==
    IF SlerpIsLinear(a, b)
    THEN QuatBlend(FloatSub(One, t), a,
                   IF QuatDot(a, b).m < 0 THEN FloatNeg(t) ELSE t, b)
    ELSE unmodelled

\* A low-pass filter as constructed (lines 56-57, 81-82).
Vector3LowPassFilter == [hatxprev |-> Vector3Zero, firstTime |-> TRUE]
QuaternionLowPassFilter == [hatxprev |-> QuatIdentity, firstTime |-> TRUE]

\* What a low-pass filter's filter call yields: the value returned and the
\* filter left behind (lines 46, 71: return _hatxprev = hatx).
LowPassResult(hatx) == [ret |-> hatx, self |-> [hatxprev |-> hatx, firstTime |-> FALSE]]

\* Vector3LowPassFilter::filter (lines 40-47).
Vector3LowPassFilter_filter(self, x, alpha) ==
    LowPassResult(VecAdd(VecScale(alpha, x),
                         VecScale(FloatSub(One, alpha),
                                  IF self.firstTime THEN x ELSE self.hatxprev)))

\* QuaternionLowPassFilter::filter (lines 66-72).
QuaternionLowPassFilter_filter(self, x, alpha, unmodelled) ==
    LowPassResult(slerp(IF self.firstTime THEN x ELSE self.hatxprev, alpha, x, unmodelled))

\* Vector3LowPassFilter::reset, QuaternionLowPassFilter::reset (lines 49, 78).
LowPassFilter_reset(self) == [self EXCEPT !.firstTime = TRUE]

\* Vector3Filterable::computeDerivative (lines 101-103).
Vector3_computeDerivative(prev, current, dt) ==
    VecScale(FloatDiv(One, dt), VecSub(current, prev))

\* OneEuroFilter::alpha (lines 191-194): tau is 1 / (2 * pi * cutoff),
\* worked out in double and rounded to float once; pi is taken as 355/113.
alpha(dt, cutoff) ==
    FloatDiv(One, FloatAdd(One, FloatDiv(RoundRatio(113, 710 * cutoff.m, -cutoff.e), dt)))

\* OneEuroFilter<Filterable> as constructed (lines 164-165).
OneEuroFilter(kind, params) ==
    [kind |-> kind,
     firstTime |-> TRUE,
     xfilt |-> IF kind = "Vector3" THEN Vector3LowPassFilter ELSE QuaternionLowPassFilter,
     dxfilt |-> IF kind = "Vector3" THEN Vector3LowPassFilter ELSE QuaternionLowPassFilter,
     params |-> params]

\* OneEuroFilter::reset (lines 169-173).
OneEuroFilter_reset(self) ==
    [self EXCEPT !.dxfilt = LowPassFilter_reset(self.dxfilt),
                 !.xfilt = LowPassFilter_reset(self.xfilt),
                 !.firstTime = TRUE]

\* A cutoff that adds the derivative's magnitude unscaled, as if beta were 1.
Cutoff_unscaled(params, derivative_magnitude) ==
    FloatAdd(params.mincutoff, derivative_magnitude)

\* Line 185: cutoff = mincutoff + beta * derivative_magnitude.
Cutoff(params, derivative_magnitude) ==
    FloatAdd(params.mincutoff, FloatMul(params.beta, derivative_magnitude))

\* What OneEuroFilter::filter yields, given what its two low-pass filters
\* yielded: the value filter's result, and the filter left behind.
OneEuroResult(self, edx, ex) ==
    [ret |-> ex.ret,
     self |-> [self EXCEPT !.firstTime = FALSE, !.dxfilt = edx.self, !.xfilt = ex.self]]

\* OneEuroFilter<Vector3Filterable>::filter, lines 184-187, edx being what
\* _dxfilt.filter yielded.
Vector3OneEuroFilter_value(self, dt, x, edx) ==
    OneEuroResult(self, edx,
        Vector3LowPassFilter_filter(self.xfilt, x,
            alpha(dt, Cutoff(self.params, VecNorm(edx.ret)))))

\* OneEuroFilter<Vector3Filterable>::filter (lines 175-188).
Vector3OneEuroFilter_filter(self, dt, x) ==
    Vector3OneEuroFilter_value(self, dt, x,
        Vector3LowPassFilter_filter(self.dxfilt,
            IF self.firstTime THEN Vector3Zero
            ELSE Vector3_computeDerivative(self.xfilt.hatxprev, x, dt),
            alpha(dt, self.params.dcutoff)))

\* QuaternionFilterable::computeDerivativeMagnitude (lines 139-142):
\* 2 * acos(w), which is 0 for w = 1; otherwise acos is not computed and the
\* result is `unmodelled`.
Quaternion_computeDerivativeMagnitude(dx, unmodelled) ==
    IF dx.w = One THEN Zero ELSE unmodelled

\* OneEuroFilter<QuaternionFilterable>::filter, lines 184-187, edx being
\* what _dxfilt.filter yielded.  u.magnitude stands for acos, u.quat for the
\* slerp of the value filter when it leaves the linear branch.
QuatOneEuroFilter_value(self, dt, x, u, edx) ==
    OneEuroResult(self, edx,
        QuaternionLowPassFilter_filter(self.xfilt, x,
            alpha(dt, Cutoff(self.params,
                             Quaternion_computeDerivativeMagnitude(edx.ret, u.magnitude))),
            u.quat))

\* OneEuroFilter<QuaternionFilterable>::filter (lines 175-188).  The
\* derivative of a later call (lines 126-137: inverse, product, normalized)
\* is not computed: it is u.dx.  u.dquat stands for the slerp of the
\* derivative filter when it leaves the linear branch.
QuatOneEuroFilter_filter(self, dt, x, u) ==
    QuatOneEuroFilter_value(self, dt, x, u,
        QuaternionLowPassFilter_filter(self.dxfilt,
            IF self.firstTime THEN QuatIdentity ELSE u.dx,
            alpha(dt, self.params.dcutoff), u.dquat))

\* XrQuaternionf is {x, y, z, w} and XrVector3f {x, y, z}: tuples in the
\* order of the fields.  xr_eigen.h, lines 35-37 and 43-45.
ToVector3f(v) == <<v[1], v[2], v[3]>>
ToQuaternionf(q) == Quat(q[4], q[1], q[2], q[3])

\* XrPosefOneEuroFilter as constructed (lines 215-216).
XrPosefOneEuroFilter(params) ==
    [rotFilter |-> OneEuroFilter("Quaternion", params.rotParams),
     posFilter |-> OneEuroFilter("Vector3", params.posParams)]

\* A reset that leaves the position filter alone.
XrPosefOneEuroFilter_reset_rotation(self) ==
    [rotFilter |-> OneEuroFilter_reset(self.rotFilter), posFilter |-> self.posFilter]

\* XrPosefOneEuroFilter::reset (lines 218-221).
XrPosefOneEuroFilter_reset(self) ==
    [rotFilter |-> OneEuroFilter_reset(self.rotFilter),
     posFilter |-> OneEuroFilter_reset(self.posFilter)]

\* Lines 226-229: the XrPosef returned, and the two filters left behind.
PoseResult(newRot, newPos) ==
    [ret |-> [orientation |-> <<newRot.ret.x, newRot.ret.y, newRot.ret.z, newRot.ret.w>>,
              position |-> <<newPos.ret[1], newPos.ret[2], newPos.ret[3]>>],
     self |-> [rotFilter |-> newRot.self, posFilter |-> newPos.self]]

\* A filter whose position channel is fed from the orientation.
XrPosefOneEuroFilter_filter_coupled(self, dt, x, u) ==
    PoseResult(QuatOneEuroFilter_filter(self.rotFilter, dt, ToQuaternionf(x.orientation), u),
               Vector3OneEuroFilter_filter(self.posFilter, dt, ToVector3f(x.orientation)))

\* XrPosefOneEuroFilter::filter (lines 223-230).
XrPosefOneEuroFilter_filter(self, dt, x, u) ==
    PoseResult(QuatOneEuroFilter_filter(self.rotFilter, dt, ToQuaternionf(x.orientation), u),
               Vector3OneEuroFilter_filter(self.posFilter, dt, ToVector3f(x.position)))

(***************************************************************************)
(* foveation.h: MakeFoveatedDecodeBaseParams (lines 32-71).                *)
(*                                                                         *)
(* The function mixes float with double: an expression holding a double   *)
(* literal (1., 2.) is evaluated in double and cast to float at the end.   *)
(* A double is written [m, e] like a float, its significand DoubleBits     *)
(* wide.                                                                   *)
(***************************************************************************)

\* The significand of double is 2 * 24 + 5 = 53 bits wide where that of
\* float is 24.
DoubleBits == 2 * PrecisionBits + 5

\* The double nearest to m * 2^e, ties to even.
RoundToDouble(m, e) == RoundAt(m, e, BitLength(Abs(m)) - DoubleBits)

\* The double nearest to (n / d) * 2^e, d > 0.
ScaledDoubleRatio(n, d, e, s) ==
    LET q == (Abs(n) * 2^s) \div d
        sticky == IF (Abs(n) * 2^s) % d = 0 THEN 0 ELSE 1
    IN  RoundToDouble((2 * q + sticky) * (IF n < 0 THEN -1 ELSE 1), e - s - 1)

DoubleMul(a, b) ==
    IF a.m = 0 \/ b.m = 0 THEN Zero ELSE RoundToDouble(a.m * b.m, a.e + b.e)

\* b is not zero.
DoubleDiv(a, b) ==
    IF a.m = 0 THEN Zero
    ELSE ScaledDoubleRatio(IF b.m < 0 THEN -a.m ELSE a.m, Abs(b.m), a.e - b.e,
                           DoubleBits + 2 + BitLength(Abs(b.m)))

DoubleSub(a, b) ==
    IF b.m = 0 THEN a
    ELSE LET lo == IF a.e < b.e THEN a.e ELSE b.e
         IN  RoundToDouble(a.m * 2^(a.e - lo) - b.m * 2^(b.e - lo), lo)

\* static_cast<float> of a double.
ToFloat(a) == RoundToFloat(a.m, a.e)

\* std::ceil, as an integer (ceil of a value in (-1, 0] is -0.0, the
\* integer 0).
Ceil(a) == IF a.e >= 0 THEN a.m * 2^a.e ELSE -((-a.m) \div 2^(-a.e))

\* The float or double of an integer that fits the significand.
FromInteger(n) == Canonical(n, 0)

\* What a division by zero yields, an infinity or a NaN: not a number of
\* the model, and compared for equality only.
NotFinite == [m |-> 0, e |-> 1]

Two == [m |-> 1, e |-> 1]

ThirtyTwo == [m |-> 1, e |-> 5]

\* uint32_t values are held in units of 32, the only ones the function
\* makes: 2^32 = 32 * Uint32Blocks.
Uint32Blocks == 2^27

\* (uint32_t) of a float with the integral value n, times 32 in uint32_t
\* (lines 59-60), in units of 32: n modulo 2^27.  The conversion is
\* undefined for a negative n; `undefined` is what the build then yields.
AlignedBlocks(n, undefined) == IF n >= 0 THEN n % Uint32Blocks ELSE undefined

\* What the conversion of a negative n, times 32, yields on the common
\* targets, in units of 32: 0 (saturating), UINT32_MAX or n modulo 2^32.
UndefinedCasts(n) == {0, Uint32Blocks - 1, n % Uint32Blocks}

\* The float of the uint32_t holding `blocks` units of 32.
FromBlocks(blocks) == RoundToFloat(blocks, 5)

\* Lines 40-41: the edge's extent on one axis.
EdgeSize(targetEyeSize, centerSize) ==
    FloatSub(targetEyeSize, FloatMul(centerSize, targetEyeSize))

\* Lines 43-44, in double: 1. - ceil(edgeSize / (edgeRatio * 2.))
\*                               * (edgeRatio * 2.) / targetEyeSize.
CenterSizeAligned(targetEyeSize, edgeSize, edgeRatio) ==
    ToFloat(DoubleSub(One,
        DoubleDiv(DoubleMul(FromInteger(Ceil(DoubleDiv(edgeSize, DoubleMul(edgeRatio, Two)))),
                            DoubleMul(edgeRatio, Two)),
                  targetEyeSize)))

\* Lines 49-50: the product centerShift * edgeSizeAligned is a float, the
\* rest is double; edgeSizeAligned = 0 divides by zero.
CenterShiftAligned(centerShift, edgeSizeAligned, edgeRatio) ==
    IF edgeSizeAligned.m = 0 THEN NotFinite
    ELSE ToFloat(DoubleDiv(
             DoubleMul(FromInteger(Ceil(DoubleDiv(FloatMul(centerShift, edgeSizeAligned),
                                                  DoubleMul(edgeRatio, Two)))),
                       DoubleMul(edgeRatio, Two)),
             edgeSizeAligned))

\* Lines 52-53.
FoveationScale(centerSizeAligned, edgeRatio) ==
    FloatAdd(centerSizeAligned, FloatDiv(FloatSub(One, centerSizeAligned), edgeRatio))

\* Lines 62-63: the float divided by the unsigned converted to float.
EyeSizeRatioAligned(optimizedEyeSize, optimizedEyeSizeAligned) ==
    IF optimizedEyeSizeAligned.m = 0 THEN NotFinite
    ELSE FloatDiv(optimizedEyeSize, optimizedEyeSizeAligned)

\* One axis of the result, with the two sizes it was made of, the aligned
\* one as the float that line 62 or 63 divides by.
FoveatedAxisResult(centerSizeAligned, centerShiftAligned, edgeRatio, optimizedEyeSize, optimizedEyeSizeAligned) ==
    [eyeSizeRatio |-> EyeSizeRatioAligned(optimizedEyeSize, optimizedEyeSizeAligned),
     centerSize |-> centerSizeAligned,
     centerShift |-> centerShiftAligned,
     edgeRatio |-> edgeRatio,
     optimizedEyeSize |-> optimizedEyeSize,
     optimizedEyeSizeAligned |-> optimizedEyeSizeAligned]

\* Lines 55-60 on one axis, the aligned center size known.
FoveatedAxisSized(targetEyeSize, centerShift, edgeRatio, centerSizeAligned, optimizedEyeSize, undefined) ==
    FoveatedAxisResult(centerSizeAligned,
        CenterShiftAligned(centerShift,
            FloatSub(targetEyeSize, FloatMul(centerSizeAligned, targetEyeSize)),
            edgeRatio),
        edgeRatio, optimizedEyeSize,
        FromBlocks(AlignedBlocks(Ceil(FloatDiv(optimizedEyeSize, ThirtyTwo)), undefined)))

FoveatedAxisAligned(targetEyeSize, centerShift, edgeRatio, centerSizeAligned, undefined) ==
    FoveatedAxisSized(targetEyeSize, centerShift, edgeRatio, centerSizeAligned,
        FloatMul(FoveationScale(centerSizeAligned, edgeRatio), targetEyeSize),
        undefined)

\* Lines 40-63 on one axis.
FoveatedAxis(targetEyeSize, centerSize, centerShift, edgeRatio, undefined) ==
    FoveatedAxisAligned(targetEyeSize, centerShift, edgeRatio,
        CenterSizeAligned(targetEyeSize, EdgeSize(targetEyeSize, centerSize), edgeRatio),
        undefined)

\* The optimized size of one axis before its alignment (lines 40-56).
OptimizedEyeSize(targetEyeSize, centerSize, edgeRatio) ==
    FloatMul(FoveationScale(CenterSizeAligned(targetEyeSize,
                                EdgeSize(targetEyeSize, centerSize), edgeRatio),
                            edgeRatio),
             targetEyeSize)

\* MakeFoveatedDecodeBaseParams (lines 32-71): the x and the y axis.  The
\* arguments are XrVector2f, <<x, y>>; undefined[i] is what an undefined
\* conversion on axis i yields.
MakeFoveatedDecodeBaseParams(targetEyeSize, centerSize, centerShift, edgeRatio, undefined) ==
    <<FoveatedAxis(targetEyeSize[1], centerSize[1], centerShift[1], edgeRatio[1], undefined[1]),
      FoveatedAxis(targetEyeSize[2], centerSize[2], centerShift[2], edgeRatio[2], undefined[2])>>

(***************************************************************************)
(* State.                                                                  *)
(***************************************************************************)
VARIABLES
    \* MediaCodecDecoderPlugin
    m_codecCtx,          \* 0 is nullptr, k > 0 the k-th CodecCtx constructed
    frameMap,            \* m_codecCtx->imgListener.frameIndexMap
    m_inputBufferQueue,  \* sequence of input-buffer indices
    m_outputBufferQueue, \* sequence of OutputBufferId
    \* the submitting thread inside QueuePacket
    qp_pc, qp_pkt, qp_idx, qp_buf, qp_pts, qp_ret,
    \* the decode-consumer thread inside Run
    run_pc, run_ctx, run_buf, run_ret, isRunningToken,
    \* collaborators
    waitingNextIDR,      \* client context flag
    renderMode,          \* IOpenXrProgram render mode
    decoderInputLog,     \* LatencyCollector::decoderInput call-outs
    decoderOutputLog,    \* LatencyCollector::decoderOutput call-outs
    imageLog,            \* images handled by OnImageAvailable
    \* the codec and the image reader
    codecInputFree, codecOutputFree, codecPending, codecErrored,
    imageQueue, imageCallbacks,
    \* the steady clock
    now,
    \* history
    sessionCount, buildCount, lastBuild, sessionAtError,
    packetsQueued, lastConfig, submitLog, pkts,
    enqueuedLog,         \* entries the output-ready callback enqueued
    releasedLog,         \* entries Run released to the surface, with its lookup
    \* MapSpec
    fm, fmHist,
    \* FilterSpec
    oef,                 \* a OneEuroFilter object
    oefLast,             \* its last filter call: inputs, result, state found
    oefCalls,            \* calls made on it so far
    \* SteadySpec
    poseFilter,          \* a XrPosefOneEuroFilter object
    poseLast,            \* its last filter call: inputs and result
    poseTicks,           \* filter calls made on it so far
    poseConst,           \* the constant sample it is driven with
    \* FoveationSpec
    fovIn,               \* the arguments of MakeFoveatedDecodeBaseParams
    fovOut,              \* what it returned
    fovDone,             \* whether it has been called
    \* the engine (alxr_engine.cpp) and the D3D12 graphics plugin
    gProgram,            \* whether the program exists (FALSE is nullptr)
    gDecoderThread,      \* whether the decoder thread is started
    gRenderMutex,        \* "free" or who holds it
    m_renderTex,         \* slot published for rendering, or NoTexture
    m_currentVideoTex,   \* slot to be written next
    m_videoTextures,     \* the frameIndex of each slot (slot i at i + 1)
    currentTextureIdx,   \* slot BeginVideoView selected
    m_fovDecodeParams,   \* installed FoveatedDecodeParams, or NoFovParams
    main_pc,             \* the main thread: a frame or alxr_destroy
    net_pc, net_config,  \* the network thread inside alxr_set_stream_config
    upd_pc, upd_freeIndex, \* the decoder thread inside UpdateVideoTexture
    engineHist,          \* history of the image ring and of the frames
    \* XrInputThread
    m_isConnected,
    m_lastEyeInfo,
    inputHist,           \* history of the input ticks
    \* a second pose filter, driven side by side with poseFilter
    poseFilterB,
    poseLastB,           \* its last filter call: inputs and result
    pairHist,            \* what the two filters' input streams have shared
    \* one XrImageListener, its destructor and the image reader's callbacks
    lsn_pc,              \* the thread inside ~XrImageListener
    cb_pc,               \* the reader's thread inside OnImageAvailable
    listenerDestroyMutex, \* "free" or who holds it
    lsnRegistered,       \* the reader has the listener set
    lsnPending,          \* callbacks the reader has posted and not yet made
    lsnHist,             \* history of the callbacks
    \* XrInputThread: Start, Stop and the loop of Run
    m_isRunning,
    m_inputThread,       \* whether m_inputThread is joinable
    m_targetDurationUS,
    it_pc,               \* the input thread inside Run ("idle": not in Run)
    own_pc,              \* the owner's thread inside Start or Stop
    nextWakeTime,        \* Run's local
    steadyNow,           \* XrSteadyClock
    runHist,             \* history of the loop
    \* m_codecCtx as the two words of a std::shared_ptr, and its session
    codecCtxRep,         \* m_codecCtx: stored pointer and control block
    runCodecCtx,         \* Run's local codecCtx
    ctx_qp_pc,           \* QueuePacket inside line 293
    ctx_qp_new,          \* what MakeCodecContext returned
    ctx_run_pc,          \* Run and waitForCodecCtx
    ctx_own_pc,          \* the owner of the decoder thread and of the plugin
    ctx_token,           \* isRunningToken
    ctx_session,         \* the CodecCtx: use count, codec and image listener
    ctxHist,
    \* Update and SetConnected, access by access to m_lastEyeInfo
    upd_eye_pc,          \* the input thread inside Update
    upd_isConnected,     \* Update's local isConnected
    upd_newEyeInfo,      \* Update's local newViewConfig.eyeInfo
    sc_pc,               \* the caller's thread inside SetConnected
    sc_connected,        \* SetConnected's argument
    eyeRaceHist,
    \* alxr_init and alxr_destroy
    gClientCtx,          \* the copy of the caller's ALXRClientCtx, or null
    initHist             \* the last call of alxr_init or alxr_destroy

pipeVars ==
    <<m_codecCtx, frameMap, m_inputBufferQueue, m_outputBufferQueue,
      qp_pc, qp_pkt, qp_idx, qp_buf, qp_pts, qp_ret,
      run_pc, run_ctx, run_buf, run_ret, isRunningToken,
      waitingNextIDR, renderMode, decoderInputLog, decoderOutputLog, imageLog,
      codecInputFree, codecOutputFree, codecPending, codecErrored,
      imageQueue, imageCallbacks, now,
      sessionCount, buildCount, lastBuild, sessionAtError,
      packetsQueued, lastConfig, submitLog, pkts, enqueuedLog, releasedLog>>

mapVars == <<fm, fmHist>>

filterVars == <<oef, oefLast, oefCalls>>

poseVars == <<poseFilter, poseLast, poseTicks, poseConst>>

fovVars == <<fovIn, fovOut, fovDone>>

\* The decoder pipeline without the render mode, which the engine sets too.
decoderVars ==
    <<m_codecCtx, frameMap, m_inputBufferQueue, m_outputBufferQueue,
      qp_pc, qp_pkt, qp_idx, qp_buf, qp_pts, qp_ret,
      run_pc, run_ctx, run_buf, run_ret, isRunningToken,
      waitingNextIDR, decoderInputLog, decoderOutputLog, imageLog,
      codecInputFree, codecOutputFree, codecPending, codecErrored,
      imageQueue, imageCallbacks, now,
      sessionCount, buildCount, lastBuild, sessionAtError,
      packetsQueued, lastConfig, submitLog, pkts, enqueuedLog, releasedLog>>

pairVars == <<poseFilterB, poseLastB, pairHist>>

runVars ==
    <<m_isRunning, m_inputThread, m_targetDurationUS, it_pc, own_pc, nextWakeTime,
      steadyNow, runHist>>

ctxVars ==
    <<codecCtxRep, runCodecCtx, ctx_qp_pc, ctx_qp_new, ctx_run_pc, ctx_own_pc, ctx_token,
      ctx_session, ctxHist>>

eyeRaceVars ==
    <<upd_eye_pc, upd_isConnected, upd_newEyeInfo, sc_pc, sc_connected, eyeRaceHist>>

globalVars == <<gClientCtx, initHist>>

listenerVars == <<lsn_pc, cb_pc, listenerDestroyMutex, lsnRegistered, lsnPending, lsnHist>>

ringVars == <<m_renderTex, m_currentVideoTex, m_videoTextures, currentTextureIdx>>

threadVars == <<main_pc, net_pc, net_config, upd_pc, upd_freeIndex>>

engineVars ==
    <<gProgram, gDecoderThread, gRenderMutex, ringVars, m_fovDecodeParams,
      threadVars, engineHist>>

inputVars == <<m_isConnected, m_lastEyeInfo, inputHist>>

\* Everything beside the decoder pipeline and the map on its own.
sideVars == <<filterVars, poseVars, fovVars, engineVars, inputVars, pairVars, listenerVars, runVars, ctxVars, eyeRaceVars, globalVars>>

vars == <<pipeVars, mapVars, sideVars, enqueuedLog, releasedLog>>

\* A packet as QueuePacket classifies it: whether find_vpssps found a
\* configuration prefix, and what the rest of the payload is.
Packets == [vpssps : BOOLEAN, kind : {"config", "idr", "delta"}]

NoPacket == [vpssps |-> FALSE, kind |-> "delta"]

\* The indices of n codec buffers.
CodecBufferIds(n) == 0..(n - 1)
NoBuffer == [presentationTimeUs |-> 0, bufferId |-> 0, pkt |-> 0]
\* What the codec holds for a configuration buffer: no recorded packet.
ConfigOutput == 0

PipeInit ==
    /\ m_codecCtx = 0
    /\ frameMap = FrameIndexMap(MapSize)
    /\ m_inputBufferQueue = <<>>
    /\ m_outputBufferQueue = <<>>
    /\ qp_pc = "idle"
    /\ qp_pkt = NoPacket
    /\ qp_idx = 0
    /\ qp_buf = -1
    /\ qp_pts = 0
    /\ qp_ret = FALSE
    /\ run_pc = "start"
    /\ run_ctx = 0
    /\ run_buf = NoBuffer
    /\ run_ret = FALSE
    /\ isRunningToken = TRUE
    /\ waitingNextIDR = TRUE
    /\ renderMode = "Lobby"
    /\ decoderInputLog = <<>>
    /\ decoderOutputLog = <<>>
    /\ imageLog = <<>>
    /\ codecInputFree = {}
    /\ codecOutputFree = {}
    /\ codecPending = {}
    /\ codecErrored = FALSE
    /\ imageQueue = <<>>
    /\ imageCallbacks = 0
    /\ now = 0
    /\ sessionCount = 0
    /\ buildCount = 0
    /\ lastBuild = "none"
    /\ sessionAtError = 0
    /\ packetsQueued = 0
    /\ lastConfig = FALSE
    /\ submitLog = <<>>
    /\ pkts = <<>>
    /\ enqueuedLog = <<>>
    /\ releasedLog = <<>>

MapIdle ==
    /\ fm = FrameIndexMap(MapSize)
    /\ fmHist = <<>>

\* OneEuroFilter::Params as default-constructed (lines 158-162).
Params == [mincutoff |-> One, beta |-> [m |-> 1, e |-> -1], dcutoff |-> One]

\* The unmodelled results a quaternion filter call may draw on.
NoUnmodelled ==
    [dx |-> QuatIdentity, dquat |-> QuatIdentity, quat |-> QuatIdentity,
     magnitude |-> Zero]

NoCall ==
    [samples |-> 0, firstTime |-> FALSE, dt |-> One, x |-> Vector3Zero,
     ret |-> Vector3Zero, u |-> NoUnmodelled]

FilterIdle ==
    /\ oef = OneEuroFilter("Vector3", Params)
    /\ oefLast = NoCall
    /\ oefCalls = 0


\* XrPosefOneEuroFilter::Params as default-constructed (lines 210-213).
PoseParams == [rotParams |-> Params, posParams |-> Params]

XrPosefIdentity == [orientation |-> <<Zero, Zero, Zero, One>>, position |-> <<Zero, Zero, Zero>>]

NoPoseCall == [dt |-> One, x |-> XrPosefIdentity, ret |-> XrPosefIdentity]

PoseIdle ==
    /\ poseFilter = XrPosefOneEuroFilter(PoseParams)
    /\ poseLast = NoPoseCall
    /\ poseTicks = 0
    /\ poseConst = NoPoseCall

\* A foveation configuration: XrVector2f arguments, <<x, y>>.
FoveationConfig(targetEyeSize, centerSize, centerShift, edgeRatio) ==
    [targetEyeSize |-> targetEyeSize, centerSize |-> centerSize,
     centerShift |-> centerShift, edgeRatio |-> edgeRatio]

\* 128 x 128 pixels, half of them the center, the edge compressed 4 times.
FoveationDefault ==
    FoveationConfig(<<[m |-> 1, e |-> 7], [m |-> 1, e |-> 7]>>,
                    <<[m |-> 1, e |-> -1], [m |-> 1, e |-> -1]>>,
                    <<Zero, Zero>>,
                    <<[m |-> 1, e |-> 2], [m |-> 1, e |-> 2]>>)

BaseParamsOf(config, undefined) ==
    MakeFoveatedDecodeBaseParams(config.targetEyeSize, config.centerSize,
                                 config.centerShift, config.edgeRatio, undefined)

FovIdle ==
    /\ fovIn = FoveationDefault
    /\ fovOut = BaseParamsOf(FoveationDefault, <<0, 0>>)
    /\ fovDone = FALSE

\* std::size_t(-1): no slot (graphicsplugin_d3d12.cpp, lines 1562, 2189).
NoTexture == -1

\* std::uint64_t(-1): no frame (line 2186).
NullFrameIndex == -1

VideoTexCount == 2

\* m_fovDecodeParams == nullptr.
NoFovParams == [enabled |-> FALSE]

\* An ALXRStreamConfig: whether foveation is enabled, and its arguments.
StreamConfig(enableFoveation, foveation) ==
    [enableFoveation |-> enableFoveation, foveation |-> foveation]

\* What the history of the engine records.
\*   published      UpdateVideoTexture calls completed so far
\*   lastPublished  the slot of the most recently completed one
\*   cleared        ClearVideoTextures ran since then
\*   begun          BeginVideoView ran at least once
\*   sinceBegin     what happened since the last BeginVideoView
\*   reported       what GetVideoFrameIndex reported in the last two frames
\*   frameParams    the FoveatedDecodeParams the frame being rendered began with
\*   configs        alxr_set_stream_config calls so far
\*   indexAtBegin   the frame index of the image published at the last BeginVideoView
\*   writesSinceBegin  slots tagged by UpdateVideoTexture since then
EngineHistInit ==
    [published |-> 0, lastPublished |-> NoTexture, cleared |-> FALSE,
     begun |-> FALSE, publishedSinceBegin |-> FALSE, clearedSinceBegin |-> FALSE,
     same |-> FALSE, sameUncleared |-> FALSE, sameAtReport |-> FALSE,
     latest |-> NoTexture, updated |-> FALSE, clearedAtBegin |-> FALSE,
     selected |-> <<NoTexture, NoTexture>>,
     reported |-> <<NullFrameIndex, NullFrameIndex>>,
     video |-> FALSE, videoFrames |-> 0,
     indexAtBegin |-> NullFrameIndex, writesSinceBegin |-> 0,
     frameParams |-> NoFovParams, configs |-> 0]

\* The engine after alxr_init: the program exists, nothing is streamed.
EngineIdle ==
    /\ gProgram = TRUE
    /\ gDecoderThread = FALSE
    /\ gRenderMutex = "free"
    /\ m_renderTex = NoTexture
    /\ m_currentVideoTex = 0
    /\ m_videoTextures = <<NullFrameIndex, NullFrameIndex>>
    /\ currentTextureIdx = NoTexture
    /\ m_fovDecodeParams = NoFovParams
    /\ main_pc = "idle"
    /\ net_pc = "idle"
    /\ net_config = StreamConfig(FALSE, FoveationDefault)
    /\ upd_pc = "idle"
    /\ upd_freeIndex = 0
    /\ engineHist = EngineHistInit

\* An ALXREyeInfo: the ipd and the left angle of each eye's field of view;
\* `rest` stands for the angles Update does not compare.
EyeInfo(ipd, left0, left1, rest) ==
    [ipd |-> ipd, left |-> <<left0, left1>>, rest |-> rest]

\* input_thread.h, lines 16-19.
EyeInfoZero == EyeInfo(Zero, Zero, Zero, Zero)

\* What the history of the input thread records: the ticks so far, the
\* last report sent, the last tick (what it found and what it did) and the
\* one before, whether SetConnected ran since the last tick, and whether
\* the pose filter awaits its first call after a disconnect.
InputHistInit ==
    [ticks |-> 0, connected |-> FALSE, got |-> FALSE, eyeInfo |-> EyeInfoZero,
     remembered |-> EyeInfoZero, sent |-> FALSE,
     lastSent |-> EyeInfoZero, everSent |-> FALSE,
     lastSentBefore |-> EyeInfoZero, everSentBefore |-> FALSE,
     previous |-> [got |-> FALSE, eyeInfo |-> EyeInfoZero, sent |-> FALSE, tick |-> FALSE],
     setConnected |-> FALSE, setConnectedBefore |-> FALSE,
     resetSinceSent |-> TRUE, resetBefore |-> TRUE,
     gotTracking |-> FALSE, pollActions |-> 0, inputSend |-> 0, viewsConfigSend |-> 0,
     u |-> NoUnmodelled, filtered |-> FALSE, afterReset |-> FALSE,
     pendingReset |-> FALSE]

InputIdle ==
    /\ m_isConnected = FALSE
    /\ m_lastEyeInfo = EyeInfoZero
    /\ inputHist = InputHistInit

\* A listener as constructed (lines 120-139): registered with its reader.
ListenerIdle ==
    /\ lsn_pc = "alive"
    /\ cb_pc = "idle"
    /\ listenerDestroyMutex = "free"
    /\ lsnRegistered = TRUE
    /\ lsnPending = 0
    /\ lsnHist = [posted |-> 0, completed |-> 0, usedDestroyed |-> FALSE,
                  enteredLate |-> FALSE]

RunHistInit ==
    [runners |-> 0, updates |-> 0, stopped |-> FALSE, updatesSinceStop |-> 0,
     adjusted |-> FALSE, behind |-> FALSE, currentTime |-> 0, missedIntervals |-> 0,
     targetFrameDuration |-> 0, starts |-> 0]

\* XrInputThread as constructed (input_thread.h, lines 32-37 and 46-48):
\* no thread, and a target duration.
RunIdle ==
    /\ m_isRunning = FALSE
    /\ m_inputThread = FALSE
    /\ m_targetDurationUS = 1
    /\ it_pc = "idle"
    /\ own_pc = "idle"
    /\ nextWakeTime = 0
    /\ steadyNow = 0
    /\ runHist = RunHistInit

\* An empty std::shared_ptr<CodecCtx>.
NullCodecCtx == [ptr |-> 0, ctrl |-> 0]

NoSession == [useCount |-> 0, codec |-> "none", listener |-> "none"]

\* MediaCodecDecoderPlugin as constructed (lines 270-275): no session, Run
\* not called yet.
CtxIdle ==
    /\ codecCtxRep = NullCodecCtx
    /\ runCodecCtx = NullCodecCtx
    /\ ctx_qp_pc = "idle"
    /\ ctx_qp_new = 0
    /\ ctx_run_pc = "idle"
    /\ ctx_own_pc = "running"
    /\ ctx_token = TRUE
    /\ ctx_session = NoSession
    /\ ctxHist = [packets |-> 0, releases |-> 0, releasedDead |-> FALSE]

\* No Update and no SetConnected in progress.
EyeRaceIdle ==
    /\ upd_eye_pc = "idle"
    /\ upd_isConnected = FALSE
    /\ upd_newEyeInfo = EyeInfoZero
    /\ sc_pc = "idle"
    /\ sc_connected = FALSE
    /\ eyeRaceHist = [ticks |-> 0, calls |-> 0, sends |-> 0]

\* An ALXRClientCtx pointer: null, or a context with each of the four
\* required callbacks present or not (alxr_engine.cpp, lines 77-83).
ClientCtx(inputSend, viewsConfigSend, pathStringToHash, requestIDR) ==
    [null |-> FALSE, inputSend |-> inputSend, viewsConfigSend |-> viewsConfigSend,
     pathStringToHash |-> pathStringToHash, requestIDR |-> requestIDR]

NullClientCtx ==
    [null |-> TRUE, inputSend |-> FALSE, viewsConfigSend |-> FALSE,
     pathStringToHash |-> FALSE, requestIDR |-> FALSE]

InitHistInit ==
    [calls |-> 0, call |-> "none", rCtx |-> NullClientCtx, ret |-> FALSE, throwAt |-> "none",
     programBefore |-> FALSE, clientCtxBefore |-> NullClientCtx, runningBefore |-> FALSE]

\* The engine after alxr_init: the context is the caller's.
GlobalsIdle ==
    /\ gClientCtx = ClientCtx(TRUE, TRUE, TRUE, TRUE)
    /\ initHist = InitHistInit

PairHistInit == [samePosition |-> TRUE, sameOrientation |-> TRUE, differed |-> FALSE]

PairIdle ==
    /\ poseFilterB = XrPosefOneEuroFilter(PoseParams)
    /\ poseLastB = NoPoseCall
    /\ pairHist = PairHistInit

(***************************************************************************)
(* MapSpec: one FrameIndexMap, any sequence of calls.                      *)
(***************************************************************************)
MapSet(ts, newIdx) ==
    /\ Len(fmHist) < MaxOps
    /\ fm' = set(fm, ts, newIdx)
    /\ fmHist' = Append(fmHist, [op |-> "set", ts |-> ts, val |-> newIdx])
    /\ UNCHANGED <<pipeVars, sideVars>>

MapGet(ts) ==
    /\ Len(fmHist) < MaxOps
    /\ fm' = fm
    /\ fmHist' = Append(fmHist, [op |-> "get", ts |-> ts, val |-> get(fm, ts)])
    /\ UNCHANGED <<pipeVars, sideVars>>

MapGetClear(ts) ==
    /\ Len(fmHist) < MaxOps
    /\ fm' = get_clear(fm, ts).map
    /\ fmHist' = Append(fmHist, [op |-> "get_clear", ts |-> ts, val |-> get_clear(fm, ts).ret])
    /\ UNCHANGED <<pipeVars, sideVars>>

(***************************************************************************)
(* History kept for the properties: one record per data packet that        *)
(* QueuePacket recorded in the FrameIndexMap, in recording order.          *)
(*   stage       where the packet is between recording and image delivery  *)
(*   overwritten a newer packet was recorded on its slot while in flight   *)
(*   aliased     it shared its slot with another in-flight packet          *)
(*   consumed    a get_clear hit its slot while it was the latest on it    *)
(***************************************************************************)
InFlightStages == {"recorded", "pending", "outq", "run", "image"}

SameSlot(ts1, ts2) == ts1 % MapSize = ts2 % MapSize

InFlightOn(ps, ts) ==
    {k \in DOMAIN ps : ps[k].stage \in InFlightStages /\ SameSlot(ps[k].pts, ts)}

\* The packet most recently recorded on the slot of ts (0: none).
LatestOn(ps, ts) ==
    LET on == {k \in DOMAIN ps : SameSlot(ps[k].pts, ts)}
    IN  IF on = {} THEN 0 ELSE CHOOSE k \in on : \A j \in on : j <= k

SetStage(ps, ks, s) ==
    [k \in DOMAIN ps |-> IF k \in ks THEN [ps[k] EXCEPT !.stage = s] ELSE ps[k]]

Recorded(ps, ts, idx) ==
    LET hit == InFlightOn(ps, ts)
        marked == [k \in DOMAIN ps |->
                     IF k \in hit
                     THEN [ps[k] EXCEPT !.overwritten = TRUE, !.aliased = TRUE]
                     ELSE ps[k]]
    IN  Append(marked, [pts |-> ts, idx |-> idx, stage |-> "recorded",
                        overwritten |-> FALSE, aliased |-> hit # {},
                        consumed |-> FALSE])

(***************************************************************************)
(* MediaCodecDecoderPlugin::QueuePacket (lines 281-335), submitting thread.*)
(***************************************************************************)
\* The locals of a finished call are forgotten.
QP_Return(ret) ==
    /\ qp_pc' = "idle"
    /\ qp_ret' = ret
    /\ qp_pkt' = NoPacket
    /\ qp_idx' = 0
    /\ qp_buf' = -1
    /\ qp_pts' = 0

\* Line 292: a session is constructed when there is none and the packet
\* carries configuration data (vpssps.size() > 0).
NeedsSession_ignoreConfig(codecCtx, vpssps) == codecCtx = 0
NeedsSession(codecCtx, vpssps) == codecCtx = 0 /\ vpssps

\* Line 299: the wait timed out, or the index is negative.
InputWaitFailed_never(dequeued, inputBufferId) == FALSE
InputWaitFailed(dequeued, inputBufferId) == ~dequeued \/ inputBufferId < 0

\* Line 304: is_idr of the payload after the configuration prefix.
is_idr_anyData(packet_data) == packet_data.kind # "config"
is_idr(packet_data) == packet_data.kind = "idr"

\* Line 311: is_config of the payload after the configuration prefix.
is_config(packet_data) == packet_data.kind = "config"

\* Line 323: the PTS the input buffer is queued with, given the reading
\* MakePTS would return.
PacketPTS_alwaysClock(is_config_packet, clock) == clock
PacketPTS(is_config_packet, clock) == IF is_config_packet THEN 0 ELSE clock

\* Lines 499-502: the render mode after MakeCodecContext.
RenderModeAfterBuild_always(made, mode) == "VideoStream"
RenderModeAfterBuild(made, mode) == IF made THEN "VideoStream" ELSE mode

\* Lines 289-296: find_vpssps, lazy session construction, null check.
\* A new CodecCtx carries a new XrImageListener, hence a new FrameIndexMap;
\* MakeCodecContext switches the render mode on success (line 501), and the
\* started codec owns all its buffers, codecBuffers of each kind.
QueuePacket_Begin(newPacketData, trackingFrameIndex, step, codecBuffers) ==
    /\ qp_pc = "idle"
    /\ packetsQueued < MaxPackets
    /\ packetsQueued' = packetsQueued + 1
    /\ lastConfig' = newPacketData.vpssps
    /\ LET build == NeedsSession(m_codecCtx, newPacketData.vpssps)
           made == build /\ MakeCodecContext(step)
       IN  /\ (~build => step = "ok")
           /\ m_codecCtx' = IF made THEN sessionCount + 1 ELSE m_codecCtx
           /\ sessionCount' = IF made THEN sessionCount + 1 ELSE sessionCount
           /\ buildCount' = IF build THEN buildCount + 1 ELSE buildCount
           /\ lastBuild' = IF build THEN step ELSE lastBuild
           /\ frameMap' = IF made THEN FrameIndexMap(MapSize) ELSE frameMap
           /\ renderMode' = IF build THEN RenderModeAfterBuild(made, renderMode)
                            ELSE renderMode
           /\ codecInputFree' =
                  IF made THEN CodecBufferIds(codecBuffers) ELSE codecInputFree
           /\ codecOutputFree' =
                  IF made THEN CodecBufferIds(codecBuffers) ELSE codecOutputFree
    /\ IF m_codecCtx' = 0
       THEN QP_Return(FALSE)
       ELSE /\ qp_pc' = "dequeue"
            /\ qp_pkt' = newPacketData
            /\ qp_idx' = trackingFrameIndex
            /\ UNCHANGED <<qp_ret, qp_buf, qp_pts>>
    /\ UNCHANGED <<m_inputBufferQueue, m_outputBufferQueue,
                   run_pc, run_ctx, run_buf, run_ret, isRunningToken,
                   waitingNextIDR, decoderInputLog, decoderOutputLog, imageLog,
                   codecPending, codecErrored, imageQueue, imageCallbacks, now,
                   sessionAtError, submitLog, pkts, mapVars, sideVars, enqueuedLog, releasedLog>>

\* Lines 298-321: the bounded wait for an input-buffer index (it times out
\* only while the queue is empty), the IDR flag, the decoder-input call-out.
QueuePacket_Dequeue ==
    /\ qp_pc = "dequeue"
    /\ LET dequeued == m_inputBufferQueue # <<>>
           inputBufferId == IF dequeued THEN Head(m_inputBufferQueue) ELSE -1
       IN  /\ m_inputBufferQueue' =
                  IF dequeued THEN Tail(m_inputBufferQueue) ELSE m_inputBufferQueue
           /\ IF InputWaitFailed(dequeued, inputBufferId)
              THEN /\ QP_Return(FALSE)
                   /\ UNCHANGED <<waitingNextIDR, decoderInputLog>>
              ELSE /\ qp_pc' = "record"
                   /\ qp_buf' = inputBufferId
                   /\ UNCHANGED <<qp_ret, qp_pkt, qp_idx, qp_pts>>
                   /\ waitingNextIDR' =
                          IF is_idr(qp_pkt) THEN FALSE ELSE waitingNextIDR
                   /\ decoderInputLog' =
                          IF ~is_config(qp_pkt)
                          THEN Append(decoderInputLog, qp_idx)
                          ELSE decoderInputLog
    /\ UNCHANGED <<m_codecCtx, frameMap, m_outputBufferQueue,
                   run_pc, run_ctx, run_buf, run_ret, isRunningToken,
                   renderMode, decoderOutputLog, imageLog,
                   codecInputFree, codecOutputFree, codecPending, codecErrored,
                   imageQueue, imageCallbacks, now,
                   sessionCount, buildCount, lastBuild, sessionAtError,
                   packetsQueued, lastConfig, submitLog, pkts, mapVars, sideVars, enqueuedLog, releasedLog>>

\* Lines 323-327: PTS 0 for a configuration packet, MakePTS (a reading of
\* the steady clock, never earlier than the previous one) and set for a data
\* packet.
QueuePacket_Record ==
    /\ qp_pc = "record"
    /\ qp_pc' = "submit"
    /\ \E clock \in now..MaxPTS :
           LET is_config_packet == is_config(qp_pkt)
               pts == PacketPTS(is_config_packet, clock)
           IN  /\ is_config_packet => clock = now
               /\ now' = clock
               /\ qp_pts' = pts
               /\ IF is_config_packet
                  THEN UNCHANGED <<frameMap, pkts>>
                  ELSE /\ frameMap' = set(frameMap, pts, qp_idx)
                       /\ pkts' = Recorded(pkts, pts, qp_idx)
    /\ UNCHANGED <<m_codecCtx, m_inputBufferQueue, m_outputBufferQueue,
                   qp_pkt, qp_idx, qp_buf, qp_ret,
                   run_pc, run_ctx, run_buf, run_ret, isRunningToken,
                   waitingNextIDR, renderMode, decoderInputLog, decoderOutputLog,
                   imageLog, codecInputFree, codecOutputFree, codecPending,
                   codecErrored, imageQueue, imageCallbacks,
                   sessionCount, buildCount, lastBuild, sessionAtError,
                   packetsQueued, lastConfig, submitLog, mapVars, sideVars, enqueuedLog, releasedLog>>

\* Lines 329-334: AMediaCodec_queueInputBuffer.  A codec in the error state
\* rejects the buffer; the codec consumes an accepted buffer, which is free
\* to be announced again.  An accepted data buffer leaves a frame pending in
\* the codec; for an accepted configuration buffer the codec may announce an
\* output buffer too, which then carries the PTS the input was queued with.
QueuePacket_Submit(ok) ==
    /\ qp_pc = "submit"
    /\ codecErrored => ~ok
    /\ QP_Return(ok)
    /\ submitLog' = Append(submitLog,
                           [session |-> m_codecCtx, config |-> is_config(qp_pkt),
                            pts |-> qp_pts, ok |-> ok])
    /\ codecInputFree' = IF ok THEN codecInputFree \cup {qp_buf} ELSE codecInputFree
    /\ IF is_config(qp_pkt)
       THEN /\ codecPending' = IF ok THEN codecPending \cup {ConfigOutput} ELSE codecPending
            /\ pkts' = pkts
       ELSE /\ codecPending' = IF ok THEN codecPending \cup {Len(pkts)} ELSE codecPending
            /\ pkts' = SetStage(pkts, {Len(pkts)}, IF ok THEN "pending" ELSE "failed")
    /\ UNCHANGED <<m_codecCtx, frameMap, m_inputBufferQueue, m_outputBufferQueue,
                   run_pc, run_ctx, run_buf, run_ret, isRunningToken,
                   waitingNextIDR, renderMode, decoderInputLog, decoderOutputLog,
                   imageLog, codecOutputFree, codecErrored, imageQueue,
                   imageCallbacks, now,
                   sessionCount, buildCount, lastBuild, sessionAtError,
                   packetsQueued, lastConfig, mapVars, sideVars, enqueuedLog, releasedLog>>

(***************************************************************************)
(* The codec's asynchronous callbacks (lines 337-363), codec thread.       *)
(***************************************************************************)
\* OnCodecError only logs; the codec itself is in the error state from then.
OnCodecError ==
    /\ m_codecCtx # 0
    /\ ~codecErrored
    /\ codecErrored' = TRUE
    /\ sessionAtError' = m_codecCtx
    /\ UNCHANGED <<m_codecCtx, frameMap, m_inputBufferQueue, m_outputBufferQueue,
                   qp_pc, qp_pkt, qp_idx, qp_buf, qp_pts, qp_ret,
                   run_pc, run_ctx, run_buf, run_ret, isRunningToken,
                   waitingNextIDR, renderMode, decoderInputLog, decoderOutputLog,
                   imageLog, codecInputFree, codecOutputFree, codecPending,
                   imageQueue, imageCallbacks, now,
                   sessionCount, buildCount, lastBuild,
                   packetsQueued, lastConfig, submitLog, pkts, mapVars, sideVars, enqueuedLog, releasedLog>>

\* BlockingReaderWriterCircularBuffer::wait_enqueue_timed as the callbacks
\* call it (lines 352 and 360): the queue after the call.  The item is
\* dropped when the queue is still full at the end of the wait.
wait_enqueue_timed_unbounded(queue, item, capacity) == Append(queue, item)
wait_enqueue_timed(queue, item, capacity) ==
    IF Len(queue) < capacity THEN Append(queue, item) ELSE queue

\* Lines 349-353.
OnCodecInputAvailable(bufferIndex) ==
    /\ m_codecCtx # 0
    /\ ~codecErrored
    /\ bufferIndex \in codecInputFree
    /\ codecInputFree' = codecInputFree \ {bufferIndex}
    /\ m_inputBufferQueue' =
           wait_enqueue_timed(m_inputBufferQueue, bufferIndex, InputQueueCapacity)
    /\ UNCHANGED <<m_codecCtx, frameMap, m_outputBufferQueue,
                   qp_pc, qp_pkt, qp_idx, qp_buf, qp_pts, qp_ret,
                   run_pc, run_ctx, run_buf, run_ret, isRunningToken,
                   waitingNextIDR, renderMode, decoderInputLog, decoderOutputLog,
                   imageLog, codecOutputFree, codecPending, codecErrored,
                   imageQueue, imageCallbacks, now,
                   sessionCount, buildCount, lastBuild, sessionAtError,
                   packetsQueued, lastConfig, submitLog, pkts, mapVars, sideVars, enqueuedLog, releasedLog>>

\* Lines 355-363.  The codec decoded a pending frame (in any order) into one
\* of its output buffers, announced with the PTS the input was queued with.
OnCodecOutputAvailable(p, bufferIndex) ==
    /\ ~codecErrored
    /\ p \in codecPending
    /\ bufferIndex \in codecOutputFree
    /\ codecPending' = codecPending \ {p}
    /\ codecOutputFree' = codecOutputFree \ {bufferIndex}
    /\ LET newOuputBuffer ==
               [presentationTimeUs |-> IF p = ConfigOutput THEN 0 ELSE pkts[p].pts,
                bufferId |-> bufferIndex, pkt |-> p]
           queued == wait_enqueue_timed(m_outputBufferQueue, newOuputBuffer,
                                        OutputQueueCapacity)
           dropped == queued = m_outputBufferQueue
       IN  /\ m_outputBufferQueue' = queued
           /\ enqueuedLog' = IF dropped THEN enqueuedLog
                              ELSE Append(enqueuedLog, newOuputBuffer)
           /\ pkts' = SetStage(pkts, {p}, IF dropped THEN "lost" ELSE "outq")
    /\ UNCHANGED <<m_codecCtx, frameMap, m_inputBufferQueue,
                   qp_pc, qp_pkt, qp_idx, qp_buf, qp_pts, qp_ret,
                   run_pc, run_ctx, run_buf, run_ret, isRunningToken,
                   waitingNextIDR, renderMode, decoderInputLog, decoderOutputLog,
                   imageLog, codecInputFree, codecErrored, imageQueue,
                   imageCallbacks, now,
                   sessionCount, buildCount, lastBuild, sessionAtError,
                   packetsQueued, lastConfig, submitLog, mapVars, sideVars, releasedLog>>

(***************************************************************************)
(* MediaCodecDecoderPlugin::Run (lines 507-543), decode-consumer thread.   *)
(***************************************************************************)
\* Lines 521-524.
Run_Begin ==
    /\ run_pc = "start"
    /\ IF ~isRunningToken
       THEN run_pc' = "done" /\ run_ret' = FALSE
       ELSE run_pc' = "waitCtx" /\ run_ret' = run_ret
    /\ UNCHANGED <<m_codecCtx, frameMap, m_inputBufferQueue, m_outputBufferQueue,
                   qp_pc, qp_pkt, qp_idx, qp_buf, qp_pts, qp_ret,
                   run_ctx, run_buf, isRunningToken,
                   waitingNextIDR, renderMode, decoderInputLog, decoderOutputLog,
                   imageLog, codecInputFree, codecOutputFree, codecPending,
                   codecErrored, imageQueue, imageCallbacks, now,
                   sessionCount, buildCount, lastBuild, sessionAtError,
                   packetsQueued, lastConfig, submitLog, pkts, mapVars, sideVars, enqueuedLog, releasedLog>>

\* Lines 509-514: the wait for a session ends when the token is found
\* cleared or a session is found; the thread sleeps 100ms between two looks.
WaitForCtxEnds_ignoreToken(token, codecCtx) == codecCtx # 0
WaitForCtxEnds(token, codecCtx) == ~token \/ codecCtx # 0

\* Lines 507-516: returns the session once there is one, or null once the
\* token is cleared.
waitForCodecCtx ==
    /\ run_pc = "waitCtx"
    /\ WaitForCtxEnds(isRunningToken, m_codecCtx)
    /\ run_ctx' = IF isRunningToken THEN m_codecCtx ELSE 0
    /\ run_pc' = "loop"
    /\ UNCHANGED <<m_codecCtx, frameMap, m_inputBufferQueue, m_outputBufferQueue,
                   qp_pc, qp_pkt, qp_idx, qp_buf, qp_pts, qp_ret,
                   run_buf, run_ret, isRunningToken,
                   waitingNextIDR, renderMode, decoderInputLog, decoderOutputLog,
                   imageLog, codecInputFree, codecOutputFree, codecPending,
                   codecErrored, imageQueue, imageCallbacks, now,
                   sessionCount, buildCount, lastBuild, sessionAtError,
                   packetsQueued, lastConfig, submitLog, pkts, mapVars, sideVars, enqueuedLog, releasedLog>>

\* BlockingReaderWriterCircularBuffer::wait_dequeue_timed on a queue that
\* is not empty (line 530): the oldest item, and the queue left behind.
wait_dequeue_timed_newest(queue) ==
    [item |-> queue[Len(queue)], queue |-> SubSeq(queue, 1, Len(queue) - 1)]
wait_dequeue_timed(queue) == [item |-> Head(queue), queue |-> Tail(queue)]

\* Line 535: the lookup Run makes, as the value read and the map left
\* behind; get leaves the map as it was.
RunLookup_clears(m, ts) == get_clear(m, ts)
RunLookup(m, ts) == [ret |-> get(m, ts), map |-> m]

\* Lines 528-533 and 541-542: the loop test and the bounded wait for an
\* output buffer (a timed-out wait goes round the loop again).
Run_Dequeue ==
    /\ run_pc = "loop"
    /\ IF ~isRunningToken
       THEN /\ run_pc' = "done"
            /\ run_ret' = TRUE
            /\ UNCHANGED <<m_outputBufferQueue, run_buf, pkts>>
       ELSE /\ m_outputBufferQueue # <<>>
            /\ run_buf' = wait_dequeue_timed(m_outputBufferQueue).item
            /\ m_outputBufferQueue' = wait_dequeue_timed(m_outputBufferQueue).queue
            /\ pkts' = SetStage(pkts, {run_buf'.pkt}, "run")
            /\ run_pc' = "handle"
            /\ run_ret' = run_ret
    /\ UNCHANGED <<m_codecCtx, frameMap, m_inputBufferQueue,
                   qp_pc, qp_pkt, qp_idx, qp_buf, qp_pts, qp_ret,
                   run_ctx, isRunningToken,
                   waitingNextIDR, renderMode, decoderInputLog, decoderOutputLog,
                   imageLog, codecInputFree, codecOutputFree, codecPending,
                   codecErrored, imageQueue, imageCallbacks, now,
                   sessionCount, buildCount, lastBuild, sessionAtError,
                   packetsQueued, lastConfig, submitLog, mapVars, sideVars, enqueuedLog, releasedLog>>

\* Lines 534-539: get, the decoder-output call-out, and
\* AMediaCodec_releaseOutputBuffer(render = true): the codec has its buffer
\* back and, unless it is in the error state, a decoded frame goes to the
\* image reader's surface, which notifies its listener.  The output of a
\* configuration buffer holds no frame.
Run_Handle ==
    /\ run_pc = "handle"
    /\ LET ptsUs == run_buf.presentationTimeUs
           found == RunLookup(frameMap, ptsUs)
           frameIndex == found.ret
           calledOut == frameIndex # NullIndex
       IN  /\ frameMap' = found.map
           /\ decoderOutputLog' =
                  IF calledOut
                  THEN Append(decoderOutputLog, frameIndex)
                  ELSE decoderOutputLog
           /\ releasedLog' = Append(releasedLog,
                  [buf |-> run_buf, frameIndex |-> frameIndex,
                   calledOut |-> calledOut])
    /\ codecOutputFree' = codecOutputFree \cup {run_buf.bufferId}
    /\ IF codecErrored \/ run_buf.pkt = ConfigOutput
       THEN /\ pkts' = SetStage(pkts, {run_buf.pkt}, "lost")
            /\ UNCHANGED <<imageQueue, imageCallbacks>>
       ELSE /\ imageQueue' = Append(imageQueue,
                    [timestampNs |-> UsToNs(run_buf.presentationTimeUs),
                     pkt |-> run_buf.pkt])
            /\ imageCallbacks' = imageCallbacks + 1
            /\ pkts' = SetStage(pkts, {run_buf.pkt}, "image")
    /\ run_buf' = NoBuffer
    /\ run_pc' = "loop"
    /\ UNCHANGED <<m_codecCtx, m_inputBufferQueue, m_outputBufferQueue,
                   qp_pc, qp_pkt, qp_idx, qp_buf, qp_pts, qp_ret,
                   run_ctx, run_ret, isRunningToken,
                   waitingNextIDR, renderMode, decoderInputLog,
                   imageLog, codecInputFree, codecPending,
                   codecErrored, now,
                   sessionCount, buildCount, lastBuild, sessionAtError,
                   packetsQueued, lastConfig, submitLog, mapVars, sideVars, enqueuedLog>>

\* The owner of the decoder thread clears the run token.
ClearRunToken ==
    /\ isRunningToken
    /\ isRunningToken' = FALSE
    /\ UNCHANGED <<m_codecCtx, frameMap, m_inputBufferQueue, m_outputBufferQueue,
                   qp_pc, qp_pkt, qp_idx, qp_buf, qp_pts, qp_ret,
                   run_pc, run_ctx, run_buf, run_ret,
                   waitingNextIDR, renderMode, decoderInputLog, decoderOutputLog,
                   imageLog, codecInputFree, codecOutputFree, codecPending,
                   codecErrored, imageQueue, imageCallbacks, now,
                   sessionCount, buildCount, lastBuild, sessionAtError,
                   packetsQueued, lastConfig, submitLog, pkts, mapVars, sideVars, enqueuedLog, releasedLog>>

(***************************************************************************)
(* XrImageListener::OnImageAvailable (lines 179-217), image-reader thread. *)
(* AImageReader_acquireLatestImage fails when no image is queued, and      *)
(* otherwise hands out the newest image and discards the older ones.  The  *)
(* image is published (UpdateVideoTextureMediaCodec) when its frame index  *)
(* resolved.                                                               *)
(***************************************************************************)
\* Line 198: the lookup resolved.
Resolved_always(frameIndex) == TRUE
Resolved(frameIndex) == frameIndex # NullIndex

OnImageAvailable ==
    /\ imageCallbacks > 0
    /\ imageCallbacks' = imageCallbacks - 1
    /\ IF imageQueue = <<>>
       THEN UNCHANGED <<imageQueue, frameMap, imageLog, pkts>>
       ELSE LET img == imageQueue[Len(imageQueue)]
                older == {imageQueue[i].pkt : i \in 1..(Len(imageQueue) - 1)}
                ptsUs == NsToUs(img.timestampNs)
                found == get_clear(frameMap, ptsUs)
                frameIndex == found.ret
                latest == LatestOn(pkts, ptsUs)
                staged == SetStage(SetStage(pkts, older, "dropped"),
                                   {img.pkt}, "delivered")
            IN  /\ imageQueue' = <<>>
                /\ frameMap' = found.map
                /\ imageLog' = Append(imageLog,
                       [pkt |-> img.pkt, ptsUs |-> ptsUs, frameIndex |-> frameIndex,
                        published |-> Resolved(frameIndex),
                        latest |-> latest,
                        latestConsumed |-> IF latest = 0 THEN FALSE
                                           ELSE pkts[latest].consumed])
                /\ pkts' = IF latest = 0 THEN staged
                           ELSE [staged EXCEPT ![latest].consumed = TRUE]
    /\ UNCHANGED <<m_codecCtx, m_inputBufferQueue, m_outputBufferQueue,
                   qp_pc, qp_pkt, qp_idx, qp_buf, qp_pts, qp_ret,
                   run_pc, run_ctx, run_buf, run_ret, isRunningToken,
                   waitingNextIDR, renderMode, decoderInputLog, decoderOutputLog,
                   codecInputFree, codecOutputFree, codecPending, codecErrored,
                   now, sessionCount, buildCount, lastBuild, sessionAtError,
                   packetsQueued, lastConfig, submitLog, mapVars, sideVars, enqueuedLog, releasedLog>>

(***************************************************************************)
(* Spec: the pipeline.                                                     *)
(***************************************************************************)
Init == PipeInit /\ MapIdle /\ FilterIdle /\ PoseIdle /\ FovIdle /\ EngineIdle /\ InputIdle /\ PairIdle /\ ListenerIdle /\ RunIdle /\ CtxIdle /\ EyeRaceIdle /\ GlobalsIdle

Next ==
    \/ \E newPacketData \in Packets, trackingFrameIndex \in FrameValues,
          step \in BuildSteps :
           QueuePacket_Begin(newPacketData, trackingFrameIndex, step, NumCodecBuffers)
    \/ QueuePacket_Dequeue
    \/ QueuePacket_Record
    \/ \E ok \in BOOLEAN : QueuePacket_Submit(ok)
    \/ OnCodecError
    \/ \E bufferIndex \in codecInputFree : OnCodecInputAvailable(bufferIndex)
    \/ \E p \in codecPending, bufferIndex \in codecOutputFree :
           OnCodecOutputAvailable(p, bufferIndex)
    \/ Run_Begin
    \/ waitForCodecCtx
    \/ Run_Dequeue
    \/ Run_Handle
    \/ ClearRunToken
    \/ OnImageAvailable

Spec == Init /\ [][Next]_vars

(***************************************************************************)
(* FairSpec: the pipeline with a decode-consumer thread that keeps being   *)
(* scheduled.  Its two waits are bounded (sleep_for(100ms), line 513;      *)
(* wait_dequeue_timed(100ms), line 530), so whenever a step of Run is      *)
(* possible the thread takes it after finitely many timeouts.              *)
(***************************************************************************)
RunStep == Run_Begin \/ waitForCodecCtx \/ Run_Dequeue \/ Run_Handle

FairSpec == Spec /\ WF_vars(RunStep)

(***************************************************************************)
(* QueueSpec: the pipeline on a codec that owns more buffers than the      *)
(* input queue has room for, with sessions that start and a codec that     *)
(* reports no error and accepts every buffer.                              *)
(***************************************************************************)
QueueInit == PipeInit /\ MapIdle /\ FilterIdle /\ PoseIdle /\ FovIdle /\ EngineIdle /\ InputIdle /\ PairIdle /\ ListenerIdle /\ RunIdle /\ CtxIdle /\ EyeRaceIdle /\ GlobalsIdle

QueueNext ==
    \/ \E newPacketData \in Packets, trackingFrameIndex \in FrameValues :
           QueuePacket_Begin(newPacketData, trackingFrameIndex, "ok",
                             NumQueueSpecBuffers)
    \/ QueuePacket_Dequeue
    \/ QueuePacket_Record
    \/ QueuePacket_Submit(TRUE)
    \/ \E bufferIndex \in codecInputFree : OnCodecInputAvailable(bufferIndex)
    \/ \E p \in codecPending, bufferIndex \in codecOutputFree :
           OnCodecOutputAvailable(p, bufferIndex)
    \/ Run_Begin
    \/ waitForCodecCtx
    \/ Run_Dequeue
    \/ Run_Handle
    \/ ClearRunToken
    \/ OnImageAvailable

QueueSpec == QueueInit /\ [][QueueNext]_vars

MapInit == PipeInit /\ MapIdle /\ FilterIdle /\ PoseIdle /\ FovIdle /\ EngineIdle /\ InputIdle /\ PairIdle /\ ListenerIdle /\ RunIdle /\ CtxIdle /\ EyeRaceIdle /\ GlobalsIdle

MapNext ==
    \/ \E ts \in TimeStamps, newIdx \in FrameValues : MapSet(ts, newIdx)
    \/ \E ts \in TimeStamps : MapGet(ts)
    \/ \E ts \in TimeStamps : MapGetClear(ts)

MapSpec == MapInit /\ [][MapNext]_vars

(***************************************************************************)
(* Properties.                                                             *)
(***************************************************************************)
\* Positions of fmHist that hold a lookup (get or get_clear).
Lookups == {i \in DOMAIN fmHist : fmHist[i].op \in {"get", "get_clear"}}

\* Earlier calls of kind op on the slot of call i.
EarlierOn(i, op) ==
    {j \in 1..(i - 1) : fmHist[j].op = op /\ SameSlot(fmHist[j].ts, fmHist[i].ts)}

Newest(S) == CHOOSE j \in S : \A k \in S : k <= j

\* C1: the image of a data packet that shared its FrameIndexMap slot with no
\* other in-flight data packet is handed to the graphics plugin with the
\* tracking frame index QueuePacket was given for it, whatever the order of
\* the callbacks, QueuePacket and Run.
C1_FrameIdentity ==
    \A i \in DOMAIN imageLog :
        LET e == imageLog[i]
        IN  ~pkts[e.pkt].aliased =>
                /\ e.frameIndex = pkts[e.pkt].idx
                /\ e.published = (pkts[e.pkt].idx # NullIndex)

\* Two packets delivered against their submission order, both identified.
C1_Witness ==
    \E i, j \in DOMAIN imageLog :
        /\ i < j
        /\ imageLog[i].pkt > imageLog[j].pkt
        /\ imageLog[i].published /\ imageLog[j].published
        /\ ~pkts[imageLog[i].pkt].aliased /\ ~pkts[imageLog[j].pkt].aliased
        /\ imageLog[i].frameIndex # imageLog[j].frameIndex

\* C2: a lookup returns the value of the newest earlier set on its slot,
\* when no get_clear on that slot came after that set, whatever was called
\* on other slots and whatever was written to the slot before.
C2_LastWriteWins ==
    \A i \in Lookups :
        LET sets == EarlierOn(i, "set")
            clears == EarlierOn(i, "get_clear")
        IN  (sets # {} /\ \A c \in clears : c < Newest(sets)) =>
                fmHist[i].val = fmHist[Newest(sets)].val

\* Two writes to one slot under different timestamps, then a lookup under
\* the first timestamp that sees the second write.
C2_Witness ==
    /\ Len(fmHist) = 3
    /\ fmHist[1].op = "set" /\ fmHist[2].op = "set"
    /\ fmHist[1].ts # fmHist[2].ts
    /\ SameSlot(fmHist[1].ts, fmHist[2].ts)
    /\ fmHist[1].val # fmHist[2].val
    /\ fmHist[3].op = "get_clear"
    /\ fmHist[3].ts = fmHist[1].ts
    /\ fmHist[3].val = fmHist[2].val

\* C3: a lookup on a slot that no set has written returns NullIndex.
C3_NeverWrittenIsNull ==
    \A i \in Lookups :
        EarlierOn(i, "set") = {} => fmHist[i].val = NullIndex

\* C4: a get_clear that follows a get_clear on the same slot, with no set to
\* that slot in between, returns NullIndex.
C4_SecondGetClearIsNull ==
    \A i \in Lookups :
        LET sets == EarlierOn(i, "set")
            clears == EarlierOn(i, "get_clear")
        IN  (/\ fmHist[i].op = "get_clear"
             /\ clears # {}
             /\ \A w \in sets : w < Newest(clears)) =>
                fmHist[i].val = NullIndex

\* The first get_clear returned a frame index, the second the sentinel.
C4_Witness ==
    \E i, j \in Lookups :
        /\ j = i + 1
        /\ fmHist[i].op = "get_clear" /\ fmHist[j].op = "get_clear"
        /\ SameSlot(fmHist[i].ts, fmHist[j].ts)
        /\ fmHist[i].val \in FrameIndices \ {0}
        /\ fmHist[j].val = NullIndex

\* C5 as claimed: the lookup at the completion of a packet that a newer
\* packet overwrote while it was in flight yields NullIndex.
C5_OverwrittenIsNull ==
    \A i \in DOMAIN imageLog :
        pkts[imageLog[i].pkt].overwritten => imageLog[i].frameIndex = NullIndex

\* C5 amended: the lookup at the completion of a packet that a newer packet
\* overwrote while it was in flight yields the frame index of the newest
\* packet recorded on the slot, or NullIndex when a lookup has cleared the
\* slot since that recording; the packet's own record is lost.
C5_OverwrittenGetsNewest ==
    \A i \in DOMAIN imageLog :
        LET e == imageLog[i]
        IN  pkts[e.pkt].overwritten =>
                /\ e.latest > e.pkt
                /\ e.frameIndex =
                       IF e.latestConsumed THEN NullIndex ELSE pkts[e.latest].idx

\* The older packet is published under the newer packet's frame index.
C5_Witness ==
    \E i \in DOMAIN imageLog :
        LET e == imageLog[i]
        IN  /\ pkts[e.pkt].overwritten
            /\ pkts[e.pkt].pts # pkts[e.latest].pts
            /\ e.published
            /\ e.frameIndex = pkts[e.latest].idx
            /\ e.frameIndex # pkts[e.pkt].idx

\* A call of QueuePacket starts in this step.
QueuePacketCalled == packetsQueued' = packetsQueued + 1

\* C6: once the codec has reported an error, the next QueuePacket whose
\* packet carries configuration data constructs a new session, which
\* replaces the old one.
C6_RebuildAfterError ==
    [][(codecErrored /\ QueuePacketCalled /\ lastConfig') =>
           (sessionCount' = sessionCount + 1 /\ m_codecCtx' # m_codecCtx)]_vars

\* C7: with no session and no configuration data in the packet, QueuePacket
\* returns false, constructs no session, takes nothing from the input queue
\* and writes nothing to the FrameIndexMap.
C7_DroppedWithoutSession ==
    [][(QueuePacketCalled /\ m_codecCtx = 0 /\ ~lastConfig') =>
           /\ qp_pc' = "idle" /\ qp_ret' = FALSE
           /\ m_codecCtx' = 0
           /\ sessionCount' = sessionCount /\ buildCount' = buildCount
           /\ m_inputBufferQueue' = m_inputBufferQueue
           /\ frameMap' = frameMap
           /\ pkts' = pkts /\ submitLog' = submitLog
           /\ decoderInputLog' = decoderInputLog]_vars

\* A data packet was dropped for want of a session, after a failed
\* construction.
C7_Witness ==
    /\ m_codecCtx = 0
    /\ packetsQueued = 2
    /\ buildCount = 1
    /\ ~lastConfig
    /\ qp_pc = "idle" /\ qp_ret = FALSE

\* The submitting thread leaves its wait for an input buffer in this step.
InputWaitEnds == qp_pc = "dequeue" /\ qp_pc' # "dequeue"

\* C8: when the wait for an input-buffer index times out, or the index is
\* negative, QueuePacket returns false at once: no write to the
\* FrameIndexMap, no decoder-input call-out, nothing submitted.
C8_DroppedWithoutBuffer ==
    [][(/\ InputWaitEnds
        /\ \/ m_inputBufferQueue = <<>>
           \/ Head(m_inputBufferQueue) < 0) =>
           /\ qp_pc' = "idle" /\ qp_ret' = FALSE
           /\ frameMap' = frameMap
           /\ pkts' = pkts
           /\ decoderInputLog' = decoderInputLog
           /\ submitLog' = submitLog
           /\ codecPending' = codecPending
           /\ waitingNextIDR' = waitingNextIDR]_vars

\* A packet was dropped on a running session with nothing recorded.
C8_Witness ==
    /\ m_codecCtx # 0
    /\ packetsQueued = 1
    /\ qp_pc = "idle" /\ qp_ret = FALSE
    /\ m_inputBufferQueue = <<>>
    /\ pkts = <<>> /\ submitLog = <<>> /\ decoderInputLog = <<>>

\* C9: a failed construction leaves no session and makes QueuePacket return
\* false; every packet with configuration data that finds no session starts
\* a construction of its own.
C9_FailedBuildNotRetained ==
    [][QueuePacketCalled =>
           /\ (buildCount' # buildCount /\ lastBuild' # "ok") =>
                  (m_codecCtx' = 0 /\ qp_pc' = "idle" /\ qp_ret' = FALSE
                   /\ sessionCount' = sessionCount)
           /\ (m_codecCtx = 0 /\ lastConfig') => buildCount' = buildCount + 1]_vars

\* A construction failed, and the next configuration packet built a session.
C9_Witness ==
    /\ buildCount = 2
    /\ sessionCount = 1
    /\ m_codecCtx = 1
    /\ lastBuild = "ok"

\* C10: an image is published only when get_clear of its PTS returned a
\* frame index; no published image carries NullIndex.
C10_PublishedOnlyResolved ==
    \A i \in DOMAIN imageLog :
        imageLog[i].published <=> imageLog[i].frameIndex # NullIndex

\* An image was discarded for an unresolved lookup after another was
\* published.
C10_Witness ==
    \E i, j \in DOMAIN imageLog :
        /\ imageLog[i].published
        /\ ~imageLog[j].published
        /\ imageLog[j].frameIndex = NullIndex

\* Entries of imageLog for packet k: the get_clear calls made for its image.
ClearsFor(k) == {i \in DOMAIN imageLog : imageLog[i].pkt = k}

\* C11 as claimed: every data frame the decoder put out, and whose image
\* reached the image reader and left it again, had get_clear applied to its
\* slot exactly once.
C11_ClearedOncePerOutput ==
    \A k \in DOMAIN pkts :
        pkts[k].stage \in {"delivered", "dropped"} => Cardinality(ClearsFor(k)) = 1

\* C11 amended: get_clear is applied exactly once for every image that
\* OnImageAvailable acquires, and never for an image that
\* acquireLatestImage skipped.  After the delivery of a frame that is the
\* newest recording on its slot the slot holds NullIndex; the index of a
\* skipped frame stays in its slot until the next set or get_clear there.
C11_ClearedOncePerAcquiredImage ==
    \A k \in DOMAIN pkts :
        /\ Cardinality(ClearsFor(k)) = IF pkts[k].stage = "delivered" THEN 1 ELSE 0
        /\ (pkts[k].stage = "delivered" /\ LatestOn(pkts, pkts[k].pts) = k) =>
               get(frameMap, pkts[k].pts) = NullIndex
        /\ (/\ pkts[k].stage = "dropped"
            /\ LatestOn(pkts, pkts[k].pts) = k
            /\ ~pkts[k].consumed) =>
               get(frameMap, pkts[k].pts) = pkts[k].idx

\* One frame was delivered and its slot reset; the frame decoded before it
\* was skipped and its index is still in its slot.
C11_Witness ==
    \E j, k \in DOMAIN pkts :
        /\ pkts[j].stage = "dropped" /\ pkts[k].stage = "delivered"
        /\ ~SameSlot(pkts[j].pts, pkts[k].pts)
        /\ pkts[j].idx \in FrameIndices \ {0}
        /\ get(frameMap, pkts[j].pts) = pkts[j].idx
        /\ pkts[k].idx \in FrameIndices
        /\ get(frameMap, pkts[k].pts) = NullIndex

\* Frame indices QueuePacket recorded on the slot of ts.
RecordedOn(ts) == {pkts[k].idx : k \in {j \in DOMAIN pkts : SameSlot(pkts[j].pts, ts)}}

\* C12: the decoder-output call-out is made for a dequeued output buffer
\* only with a frame index that QueuePacket recorded on the slot of its PTS,
\* with its own index when it shared the slot with no other packet, and
\* never for the output of a configuration buffer.
C12_CalloutOnlyForRecorded ==
    \A i \in DOMAIN releasedLog :
        LET e == releasedLog[i]
            ts == e.buf.presentationTimeUs
        IN  /\ e.calledOut => e.frameIndex \in RecordedOn(ts)
            /\ e.buf.pkt = ConfigOutput => ~e.calledOut
            /\ (e.buf.pkt # ConfigOutput /\ ~pkts[e.buf.pkt].aliased) =>
                   e.frameIndex = pkts[e.buf.pkt].idx

\* The entries Run has released, oldest first.
ReleasedEntries == [i \in DOMAIN releasedLog |-> releasedLog[i].buf]

\* The entry Run has dequeued and not released yet.
EntryInRun == IF run_pc = "handle" THEN <<run_buf>> ELSE <<>>

\* C13: the entries the output-ready callback enqueued are, oldest first,
\* the entries Run released (each once, resolved or not), then the entry
\* Run holds, then the entries still queued: Run releases every entry it
\* dequeues exactly once, in the order of enqueueing.
C13_ReleasedOnceInOrder ==
    /\ enqueuedLog = ReleasedEntries \o EntryInRun \o m_outputBufferQueue
    /\ \A i \in DOMAIN releasedLog :
           releasedLog[i].calledOut = (releasedLog[i].frameIndex # NullIndex)

\* Two entries in two different codec buffers were released in the order
\* they were enqueued in, the first with an unresolved frame index and
\* without a call-out, the second with one.
C13_Witness ==
    /\ Len(releasedLog) = 2
    /\ releasedLog[1].buf.bufferId # releasedLog[2].buf.bufferId
    /\ releasedLog[1].buf.pkt = 1 /\ releasedLog[2].buf.pkt = 2
    /\ releasedLog[1].frameIndex = NullIndex /\ ~releasedLog[1].calledOut
    /\ releasedLog[2].calledOut
    /\ codecOutputFree = CodecBufferIds(NumQueueSpecBuffers)

\* The codec announces an input buffer in this step.
InputAnnounced == codecInputFree' # codecInputFree /\ codecInputFree' \subseteq codecInputFree

\* The codec announces an output buffer in this step.
OutputAnnounced == codecPending' # codecPending /\ codecPending' \subseteq codecPending

RunHandles == run_pc = "handle" /\ run_pc' = "loop"

\* C14: Run's handling of an output buffer changes no slot of the
\* FrameIndexMap, and while the image of a handled frame (one that shared
\* its slot with no other in-flight packet) waits for the image-ready
\* callback, a lookup of its PTS still yields the recorded frame index.
C14_RunLookupNonDestructive ==
    /\ [][RunHandles => frameMap' = frameMap]_vars
    /\ [](\A k \in DOMAIN pkts :
              (pkts[k].stage = "image" /\ ~pkts[k].aliased) =>
                  get(frameMap, pkts[k].pts) = pkts[k].idx)

\* Run made the call-out for a frame, and afterwards the image-ready
\* callback resolved the same frame index for it.
C14_Witness ==
    \E i \in DOMAIN releasedLog, j \in DOMAIN imageLog :
        /\ releasedLog[i].buf.pkt = imageLog[j].pkt
        /\ ~pkts[imageLog[j].pkt].aliased
        /\ releasedLog[i].calledOut
        /\ releasedLog[i].frameIndex \in FrameIndices \ {0}
        /\ imageLog[j].published
        /\ imageLog[j].frameIndex = releasedLog[i].frameIndex

\* The submitting thread passes the steps of QueuePacket.
QP_Classifies == qp_pc = "dequeue" /\ qp_pc' = "record"
QP_Stamps == qp_pc = "record" /\ qp_pc' = "submit"
QP_Submits == qp_pc = "submit" /\ qp_pc' = "idle"

\* C16: a configuration packet is queued with PTS 0, leaves the
\* FrameIndexMap as it was and is not reported to the decoder-input
\* call-out; a data packet that got an input buffer is reported with its
\* tracking frame index, stamped with the steady clock's reading at that
\* moment (never earlier than a previous one), recorded with
\* set(pts, trackingFrameIndex) and queued with that PTS.
C16_ConfigUntrackedDataRecorded ==
    [][/\ QP_Classifies =>
              decoderInputLog' = IF qp_pkt.kind = "config" THEN decoderInputLog
                                 ELSE Append(decoderInputLog, qp_idx)
       /\ QP_Stamps =>
              IF qp_pkt.kind = "config"
              THEN qp_pts' = 0 /\ frameMap' = frameMap /\ pkts' = pkts
              ELSE /\ qp_pts' = now' /\ now' >= now
                   /\ frameMap' = set(frameMap, qp_pts', qp_idx)
                   /\ get(frameMap', qp_pts') = qp_idx
                   /\ Len(pkts') = Len(pkts) + 1
                   /\ pkts'[Len(pkts')].pts = qp_pts'
                   /\ pkts'[Len(pkts')].idx = qp_idx
       /\ QP_Submits =>
              /\ Len(submitLog') = Len(submitLog) + 1
              /\ submitLog'[Len(submitLog')].pts = qp_pts
              /\ submitLog'[Len(submitLog')].config = (qp_pkt.kind = "config")
              /\ submitLog'[Len(submitLog')].config => qp_pts = 0]_vars

\* A data packet was queued with a clock reading and recorded, then a
\* configuration packet was queued with PTS 0 and left no trace.
C16_Witness ==
    /\ Len(submitLog) = 2
    /\ ~submitLog[1].config /\ submitLog[1].pts > 0
    /\ submitLog[2].config /\ submitLog[2].pts = 0
    /\ Len(pkts) = 1 /\ pkts[1].pts = submitLog[1].pts
    /\ Len(decoderInputLog) = 1
    /\ now > 0

\* C17: the waiting-for-next-IDR flag changes only when QueuePacket, having
\* got its input buffer, finds an IDR payload, and it is false after that
\* step; no other packet and no other step changes it.
C17_IdrClearsWaitingFlag ==
    [][/\ (QP_Classifies /\ qp_pkt.kind = "idr") => ~waitingNextIDR'
       /\ (QP_Classifies /\ qp_pkt.kind # "idr") => waitingNextIDR' = waitingNextIDR
       /\ ~QP_Classifies => waitingNextIDR' = waitingNextIDR]_vars

\* A delta packet went through with the flag still set; the IDR packet
\* after it has cleared the flag.
C17_Witness ==
    /\ packetsQueued = 2
    /\ Len(decoderInputLog) = 2
    /\ qp_pc = "record"
    /\ qp_pkt.kind = "idr"
    /\ ~waitingNextIDR

\* Frames the codec has put out: every packet past the codec.
DecodedOutputs ==
    {k \in DOMAIN pkts : pkts[k].stage \notin {"recorded", "pending", "failed"}}

RunRank(pc) ==
    CASE pc = "done" -> 0
      [] pc = "start" -> 1
      [] pc = "loop" -> 1
      [] pc = "waitCtx" -> 2
      [] pc = "handle" -> 2

\* C15: once the run token is cleared Run returns, and every step it takes
\* from then on brings it closer to returning: the wait for a session and
\* the wait for an output buffer each end at their next look at the token,
\* and an entry already dequeued is handled first.
C15_RunReturnsAfterStop ==
    /\ ~isRunningToken ~> run_pc = "done"
    /\ [][(~isRunningToken /\ run_pc' # run_pc) =>
              RunRank(run_pc') < RunRank(run_pc)]_vars

\* Run has returned with no session ever created.
C15_Witness ==
    /\ run_pc = "done"
    /\ run_ret = TRUE
    /\ ~isRunningToken
    /\ run_ctx = 0
    /\ m_codecCtx = 0
    /\ packetsQueued = MaxPackets

(***************************************************************************)
(* FilterSpec: one OneEuroFilter of either instantiation, constructed     *)
(* with some parameters, then any sequence of filter and reset calls.     *)
(***************************************************************************)
Kinds == {"Vector3", "Quaternion"}

ParamsSamples ==
    {Params,
     [mincutoff |-> [m |-> 1, e |-> 1], beta |-> One, dcutoff |-> [m |-> 1, e |-> -1]]}

\* Frame intervals: 1/4 and 1/64.
DtSamples == {[m |-> 1, e |-> -2], [m |-> 1, e |-> -6]}

Vector3Samples ==
    {Vector3Zero,
     <<One, [m |-> -7, e |-> -2], Zero>>,
     <<[m |-> -7, e |-> -2], One, One>>}

QuatSamples ==
    {QuatIdentity,
     Quat([m |-> 3, e |-> -2], [m |-> 5, e |-> -3], Zero, Zero),
     Quat(Zero, Zero, One, Zero)}

\* What the unmodelled quaternion steps may yield.
UnmodelledQuats == {QuatIdentity, Quat(Zero, Zero, One, Zero)}

MagnitudeSamples == {Zero, One}

Unmodelled ==
    [dx : UnmodelledQuats, dquat : UnmodelledQuats, quat : UnmodelledQuats,
     magnitude : MagnitudeSamples]

ValueSamples(kind) == IF kind = "Vector3" THEN Vector3Samples ELSE QuatSamples

\* Only the quaternion instantiation has unmodelled steps.
UnmodelledFor(kind) == IF kind = "Vector3" THEN {NoUnmodelled} ELSE Unmodelled

\* filter(dt, x) on either instantiation.
OneEuroFilter_filter(self, dt, x, u) ==
    IF self.kind = "Vector3"
    THEN Vector3OneEuroFilter_filter(self, dt, x)
    ELSE QuatOneEuroFilter_filter(self, dt, x, u)

FilterInit ==
    /\ PipeInit
    /\ MapIdle
    /\ GlobalsIdle
    /\ EyeRaceIdle
    /\ CtxIdle
    /\ RunIdle
    /\ ListenerIdle
    /\ PairIdle
    /\ InputIdle
    /\ EngineIdle
    /\ FovIdle
    /\ PoseIdle
    /\ oef \in {OneEuroFilter(kind, params) : kind \in Kinds, params \in ParamsSamples}
    /\ oefLast = NoCall
    /\ oefCalls = 0

FilterCall(dt, x, u) ==
    /\ oefCalls < MaxCalls
    /\ LET r == OneEuroFilter_filter(oef, dt, x, u)
       IN  /\ oef' = r.self
           /\ oefLast' = [samples |-> oefLast.samples + 1,
                          firstTime |-> oef.firstTime,
                          dt |-> dt, x |-> x, ret |-> r.ret, u |-> u]
    /\ oefCalls' = oefCalls + 1
    /\ UNCHANGED <<pipeVars, mapVars, globalVars, eyeRaceVars, ctxVars, runVars, listenerVars, pairVars, inputVars, engineVars, fovVars, poseVars>>

FilterReset ==
    /\ oefCalls < MaxCalls
    /\ oef' = OneEuroFilter_reset(oef)
    /\ oefCalls' = oefCalls + 1
    /\ UNCHANGED <<pipeVars, mapVars, globalVars, eyeRaceVars, ctxVars, runVars, listenerVars, pairVars, inputVars, engineVars, fovVars, poseVars, oefLast>>

FilterNext ==
    \/ \E dt \in DtSamples, x \in ValueSamples(oef.kind),
          u \in UnmodelledFor(oef.kind) : FilterCall(dt, x, u)
    \/ FilterReset

FilterSpec == FilterInit /\ [][FilterNext]_vars

\* The last filter call found the filter new or reset.
FirstCall == oefLast.samples > 0 /\ oefLast.firstTime

\* C20: the first filter(dt, x) call on a newly constructed OneEuroFilter,
\* and the first one after reset(), returns x unchanged, for the 3-vector
\* and the quaternion instantiation alike.
C20_FirstCallReturnsInput == FirstCall => oefLast.ret = oefLast.x

\* C20, the part about the history: the first call after reset() returns
\* what the first call on a newly constructed filter with the same
\* parameters returns for that dt and x, whatever was filtered before.
C20_ResetCallAsNew ==
    FirstCall =>
        oefLast.ret = OneEuroFilter_filter(OneEuroFilter(oef.kind, oef.params),
                                           oefLast.dt, oefLast.x, oefLast.u).ret

\* C20, how far the first call's result is from x: one unit in the last
\* place of the component at most.
C20_FirstCallWithinUlp ==
    FirstCall =>
        IF oef.kind = "Vector3"
        THEN \A i \in DOMAIN oefLast.x :
                 WithinDistance(oefLast.ret[i], oefLast.x[i], Ulp(oefLast.x[i]))
        ELSE /\ WithinDistance(oefLast.ret.w, oefLast.x.w, Ulp(oefLast.x.w))
             /\ WithinDistance(oefLast.ret.x, oefLast.x.x, Ulp(oefLast.x.x))
             /\ WithinDistance(oefLast.ret.y, oefLast.x.y, Ulp(oefLast.x.y))
             /\ WithinDistance(oefLast.ret.z, oefLast.x.z, Ulp(oefLast.x.z))

\* A first call after a reset that followed an earlier sample.
C20_Witness == FirstCall /\ oefLast.samples > 1

(***************************************************************************)
(* SteadySpec: one pose filter, driven with the same sample at the same    *)
(* dt, tick after tick.                                                    *)
(***************************************************************************)
PoseParamsSamples == {[rotParams |-> p, posParams |-> p] : p \in ParamsSamples}

\* Positions, and orientations as XrQuaternionf {x, y, z, w}.
PositionSamples == Vector3Samples
OrientationSamples ==
    {<<Zero, Zero, Zero, One>>,
     <<[m |-> 5, e |-> -3], Zero, Zero, [m |-> 3, e |-> -2]>>,
     <<Zero, One, Zero, Zero>>}

PoseSamples == [orientation : OrientationSamples, position : PositionSamples]

\* The samples SteadySpec holds a filter at.
SteadySamples ==
    {[orientation |-> <<Zero, Zero, Zero, One>>, position |-> Vector3Zero],
     [orientation |-> <<[m |-> 5, e |-> -3], Zero, Zero, [m |-> 3, e |-> -2]>>,
      position |-> <<One, [m |-> -7, e |-> -2], Zero>>],
     [orientation |-> <<Zero, One, Zero, Zero>>,
      position |-> <<[m |-> -7, e |-> -2], One, One>>]}

SteadyInit ==
    /\ PipeInit
    /\ MapIdle
    /\ GlobalsIdle
    /\ EyeRaceIdle
    /\ CtxIdle
    /\ RunIdle
    /\ ListenerIdle
    /\ PairIdle
    /\ InputIdle
    /\ EngineIdle
    /\ FovIdle
    /\ FilterIdle
    /\ poseFilter \in {XrPosefOneEuroFilter(params) : params \in PoseParamsSamples}
    /\ poseConst \in [dt : DtSamples, x : SteadySamples, ret : {XrPosefIdentity}]
    /\ poseLast = NoPoseCall
    /\ poseTicks = 0

\* One tick: filter(dt, x) with the constant sample.
SteadyTick(u) ==
    /\ poseTicks < Ticks
    /\ LET r == XrPosefOneEuroFilter_filter(poseFilter, poseConst.dt, poseConst.x, u)
       IN  /\ poseFilter' = r.self
           /\ poseLast' = [dt |-> poseConst.dt, x |-> poseConst.x, ret |-> r.ret]
    /\ poseTicks' = poseTicks + 1
    /\ UNCHANGED <<pipeVars, mapVars, globalVars, eyeRaceVars, ctxVars, runVars, listenerVars, pairVars, inputVars, engineVars, fovVars, filterVars, poseConst>>

SteadyNext == \E u \in Unmodelled : SteadyTick(u)

SteadySpec == SteadyInit /\ [][SteadyNext]_vars

C21_SteadyStateWithinUlp ==
    poseTicks = Ticks =>
        /\ \A i \in DOMAIN poseConst.x.position :
               WithinDistance(poseLast.ret.position[i], poseConst.x.position[i],
                              Ulp(poseConst.x.position[i]))
        /\ \A i \in DOMAIN poseConst.x.orientation :
               WithinDistance(poseLast.ret.orientation[i], poseConst.x.orientation[i],
                              Ulp(poseConst.x.orientation[i]))

(***************************************************************************)
(* OneEuroFilter with beta = 0: the degenerate, fixed-cutoff filter.       *)
(***************************************************************************)

\* Params with beta = 0 (one_euro_filter.h, lines 158-162).
FixedCutoffParams ==
    {[mincutoff |-> One, beta |-> Zero, dcutoff |-> One],
     [mincutoff |-> [m |-> 1, e |-> 1], beta |-> Zero, dcutoff |-> [m |-> 1, e |-> -1]]}

FixedCutoffInit ==
    /\ PipeInit
    /\ MapIdle
    /\ GlobalsIdle
    /\ EyeRaceIdle
    /\ CtxIdle
    /\ RunIdle
    /\ ListenerIdle
    /\ PairIdle
    /\ InputIdle
    /\ EngineIdle
    /\ FovIdle
    /\ PoseIdle
    /\ oef \in {OneEuroFilter(kind, params) : kind \in Kinds, params \in FixedCutoffParams}
    /\ oefLast = NoCall
    /\ oefCalls = 0

FixedCutoffSpec == FixedCutoffInit /\ [][FilterNext]_vars

\* The value filter (_xfilt) applied to x with the smoothing factor that dt
\* and cutoff give (line 187).
ValueFilter(self, dt, x, u, cutoff) ==
    IF self.kind = "Vector3"
    THEN Vector3LowPassFilter_filter(self.xfilt, x, alpha(dt, cutoff))
    ELSE QuaternionLowPassFilter_filter(self.xfilt, x, alpha(dt, cutoff), u.quat)

TargetSizeSamples == {[m |-> 3, e |-> 5], [m |-> 1, e |-> 7], [m |-> 5, e |-> 5]}

\* Center sizes: 1/2 and 1/8 of the target.
CenterSizeSamples == {[m |-> 1, e |-> -1], [m |-> 1, e |-> -3]}

\* Center shifts: none and 1/4.
CenterShiftSamples == {Zero, [m |-> 1, e |-> -2]}

\* Edge ratios: 2, 4, 64 and 160.
EdgeRatioSamples == {Two, [m |-> 1, e |-> 2], [m |-> 1, e |-> 6], [m |-> 5, e |-> 5]}

\* Every sample is admissible: a positive size, a center size in (0, 1),
\* an edge ratio above 1.
FoveationSamples ==
    {FoveationConfig(<<tx, ty>>, <<cx, cy>>, <<sx, Zero>>, <<rx, ry>>) :
        tx \in TargetSizeSamples, ty \in {[m |-> 1, e |-> 7]},
        cx \in CenterSizeSamples, cy \in CenterSizeSamples,
        sx \in CenterShiftSamples,
        rx \in EdgeRatioSamples, ry \in {[m |-> 1, e |-> 2], [m |-> 1, e |-> 6]}}

FoveationInit ==
    /\ PipeInit
    /\ MapIdle
    /\ GlobalsIdle
    /\ EyeRaceIdle
    /\ CtxIdle
    /\ RunIdle
    /\ ListenerIdle
    /\ PairIdle
    /\ InputIdle
    /\ EngineIdle
    /\ FilterIdle
    /\ PoseIdle
    /\ fovIn \in FoveationSamples
    /\ fovOut = BaseParamsOf(FoveationDefault, <<0, 0>>)
    /\ fovDone = FALSE

\* The argument of the conversion to uint32_t on axis i (lines 59-60).
AlignedCount(config, i) ==
    Ceil(FloatDiv(OptimizedEyeSize(config.targetEyeSize[i], config.centerSize[i],
                                   config.edgeRatio[i]),
                  ThirtyTwo))

FoveationCall(undefined) ==
    /\ ~fovDone
    /\ fovOut' = BaseParamsOf(fovIn, undefined)
    /\ fovDone' = TRUE
    /\ UNCHANGED <<pipeVars, mapVars, globalVars, eyeRaceVars, ctxVars, runVars, listenerVars, pairVars, inputVars, engineVars, filterVars, poseVars, fovIn>>

FoveationNext ==
    \E ux \in UndefinedCasts(AlignedCount(fovIn, 1)),
       uy \in UndefinedCasts(AlignedCount(fovIn, 2)) : FoveationCall(<<ux, uy>>)

FoveationSpec == FoveationInit /\ [][FoveationNext]_vars

\* 0 < a <= 1
InUnitInterval(a) == a # NotFinite /\ a.m > 0 /\ ~FloatLess(One, a)

\* a is an integer, and a multiple of 32.
IsMultipleOf32(a) == a.m = 0 \/ a.e >= 5

\* The rounded size of an axis is a multiple of 32 not below the unrounded
\* size, and the residual ratio is in (0, 1].
AxisAligned(axis) ==
    /\ IsMultipleOf32(axis.optimizedEyeSizeAligned)
    /\ ~FloatLess(axis.optimizedEyeSizeAligned, axis.optimizedEyeSize)
    /\ InUnitInterval(axis.eyeSizeRatio)

\* C25: for every admissible foveation input (positive target size, center
\* size in (0, 1), edge ratio above 1), on each axis the rounded optimized
\* eye size is a multiple of 32 not smaller than the unrounded optimized
\* size, and eyeSizeRatio = unrounded / rounded lies in (0, 1].
C25_AlignedSizeAndRatio == fovDone => \A i \in 1..2 : AxisAligned(fovOut[i])

\* C25 where the optimized size is positive: the edge ratio is not so
\* large that the aligned edge exceeds the target.
C25_AlignedWherePositive ==
    fovDone => \A i \in 1..2 : fovOut[i].optimizedEyeSize.m > 0 => AxisAligned(fovOut[i])

\* A configuration whose optimized size had to be rounded up.
C25_Witness ==
    /\ fovDone
    /\ \A i \in 1..2 : fovOut[i].optimizedEyeSize.m > 0
    /\ FloatLess(fovOut[1].optimizedEyeSize, fovOut[1].optimizedEyeSizeAligned)

(***************************************************************************)
(* The engine: alxr_engine.cpp and the image ring of the D3D12 graphics    *)
(* plugin (graphicsplugin_d3d12.cpp).  Three threads: the network thread   *)
(* (alxr_set_stream_config, alxr_on_server_disconnect), the decoder thread *)
(* (UpdateVideoTexture) and the main thread (alxr_process_frame,           *)
(* alxr_destroy).  The session is not headless.  alxr_destroy runs when    *)
(* the network callbacks have ended.                                       *)
(***************************************************************************)

MaxConfigs == 2

MaxVideoFrames == 3

\* std::scoped_lock lk(gRenderMutex) can be entered (alxr_engine.cpp, lines
\* 211, 236, 285).
Lockable_always(mutex) == TRUE
Lockable(mutex) == mutex = "free"

\* XrDecoderThread::Stop joins the thread: it returns when the thread is
\* not inside a call any more.
Joinable_always(pc) == TRUE
Joinable(pc) == pc = "idle"

\* MakeFoveatedDecodeParams (foveation.h, lines 73-150): eyeSizeRatio and
\* edgeRatio are those of MakeFoveatedDecodeBaseParams (lines 128-129); the
\* warp coefficients c1 .. cRight (lines 83-125) are not computed.
MakeFoveatedDecodeParams(base) ==
    [enabled |-> TRUE,
     eyeSizeRatio |-> <<base[1].eyeSizeRatio, base[2].eyeSizeRatio>>,
     edgeRatio |-> <<base[1].edgeRatio, base[2].edgeRatio>>]

\* D3D12GraphicsPlugin::SetFoveatedDecode (lines 1930-1943) with the
\* argument of alxr_set_stream_config (lines 289-292): the new value of
\* m_fovDecodeParams.
SetFoveatedDecode(rc) ==
    IF rc.enableFoveation
    THEN MakeFoveatedDecodeParams(BaseParamsOf(rc.foveation, <<0, 0>>))
    ELSE NoFovParams

\* The owner of the pose filter (the program behind IOpenXrProgram) on the
\* transition to disconnected: the history is discarded.
PoseFilterOnDisconnect(filter) == XrPosefOneEuroFilter_reset(filter)

\* The owner of the pose filter inside GetTrackingInfo, once per input
\* tick: the sampled pose is filtered.
PoseFilterOnTick(filter, dt, pose, u) == XrPosefOneEuroFilter_filter(filter, dt, pose, u)

\* XrInputThread::SetConnected (input_thread.h, lines 59-63).
SetConnected(connected) ==
    /\ m_lastEyeInfo' = EyeInfoZero
    /\ m_isConnected' = connected

\* D3D12GraphicsPlugin::GetVideoFrameIndex (lines 1811-1815).
GetVideoFrameIndex ==
    IF currentTextureIdx = NoTexture THEN NullFrameIndex
    ELSE m_videoTextures[currentTextureIdx + 1]

\* alxr_set_stream_config, line 282: the decoder thread is stopped.
alxr_set_stream_config_Stop(config) ==
    /\ net_pc = "idle"
    /\ gProgram
    /\ main_pc \in {"idle", "begun"}
    /\ engineHist.configs < MaxConfigs
    /\ Joinable(upd_pc)
    /\ gDecoderThread' = FALSE
    /\ net_pc' = "stopped"
    /\ net_config' = config
    /\ engineHist' = [engineHist EXCEPT !.configs = @ + 1]
    /\ UNCHANGED <<decoderVars, mapVars, globalVars, eyeRaceVars, ctxVars, runVars, listenerVars, pairVars, filterVars, poseVars, fovVars, inputVars,
                   renderMode, gProgram, gRenderMutex, ringVars, m_fovDecodeParams,
                   main_pc, upd_pc, upd_freeIndex>>

\* Lines 285-287: the render mutex is taken, the render mode is Lobby and
\* ClearVideoTextures (graphicsplugin_d3d12.cpp, lines 1560-1568) empties
\* the ring.
alxr_set_stream_config_Clear ==
    /\ net_pc = "stopped"
    /\ Lockable(gRenderMutex)
    /\ gRenderMutex' = "config"
    /\ renderMode' = "Lobby"
    /\ m_renderTex' = NoTexture
    /\ m_currentVideoTex' = 0
    /\ m_videoTextures' = <<NullFrameIndex, NullFrameIndex>>
    /\ net_pc' = "cleared"
    /\ engineHist' = [engineHist EXCEPT !.cleared = TRUE, !.clearedSinceBegin = TRUE]
    /\ UNCHANGED <<decoderVars, mapVars, globalVars, eyeRaceVars, ctxVars, runVars, listenerVars, pairVars, filterVars, poseVars, fovVars, inputVars,
                   gProgram, gDecoderThread, currentTextureIdx, m_fovDecodeParams,
                   main_pc, net_config, upd_pc, upd_freeIndex>>

\* Lines 289-294: the parameters are computed and installed, or cleared,
\* and the mutex is released.
alxr_set_stream_config_Foveation ==
    /\ net_pc = "cleared"
    /\ m_fovDecodeParams' = SetFoveatedDecode(net_config)
    /\ gRenderMutex' = "free"
    /\ net_pc' = "configured"
    /\ UNCHANGED <<decoderVars, mapVars, globalVars, eyeRaceVars, ctxVars, runVars, listenerVars, pairVars, filterVars, poseVars, fovVars, inputVars,
                   renderMode, gProgram, gDecoderThread, ringVars,
                   main_pc, net_config, upd_pc, upd_freeIndex, engineHist>>

\* Lines 296-328: the decoder thread is started and the input thread told
\* that the server is connected.
alxr_set_stream_config_Connect ==
    /\ net_pc = "configured"
    /\ gDecoderThread' = TRUE
    /\ SetConnected(TRUE)
    /\ inputHist' = [inputHist EXCEPT !.setConnected = TRUE, !.resetSinceSent = TRUE]
    /\ net_pc' = "idle"
    /\ UNCHANGED <<decoderVars, mapVars, globalVars, eyeRaceVars, ctxVars, runVars, listenerVars, pairVars, filterVars, poseVars, fovVars,
                   renderMode, gProgram, gRenderMutex, ringVars, m_fovDecodeParams,
                   main_pc, net_config, upd_pc, upd_freeIndex, engineHist>>

\* MediaCodecDecoderPlugin, lines 499-502: a decoder session was built and
\* switches the render mode.
DecoderSessionBuilt ==
    /\ gDecoderThread
    /\ renderMode # "VideoStream"
    /\ renderMode' = "VideoStream"
    /\ UNCHANGED <<decoderVars, mapVars, globalVars, eyeRaceVars, ctxVars, runVars, listenerVars, pairVars, filterVars, poseVars, fovVars, inputVars,
                   engineVars>>

\* UpdateVideoTexture, lines 1680-1683 (UpdateVideoTextureD3D11VA, lines
\* 1618-1621): the slot to write is loaded and tagged with the frame index.
UpdateVideoTexture_Write ==
    /\ gDecoderThread
    /\ upd_pc = "idle"
    /\ engineHist.published < MaxVideoFrames
    /\ upd_freeIndex' = m_currentVideoTex
    /\ m_videoTextures' =
           [m_videoTextures EXCEPT ![m_currentVideoTex + 1] = engineHist.published + 1]
    /\ upd_pc' = "written"
    /\ engineHist' = [engineHist EXCEPT !.writesSinceBegin = IF @ < 2 THEN @ + 1 ELSE @]
    /\ UNCHANGED <<decoderVars, mapVars, globalVars, eyeRaceVars, ctxVars, runVars, listenerVars, pairVars, filterVars, poseVars, fovVars, inputVars,
                   renderMode, gProgram, gDecoderThread, gRenderMutex,
                   m_renderTex, m_currentVideoTex, currentTextureIdx,
                   m_fovDecodeParams, main_pc, net_pc, net_config>>

\* Line 1762 (1652): m_currentVideoTex.store((freeIndex + 1) % VideoTexCount).
UpdateVideoTexture_Advance ==
    /\ upd_pc = "written"
    /\ m_currentVideoTex' = (upd_freeIndex + 1) % VideoTexCount
    /\ upd_pc' = "advanced"
    /\ UNCHANGED <<decoderVars, mapVars, globalVars, eyeRaceVars, ctxVars, runVars, listenerVars, pairVars, filterVars, poseVars, fovVars, inputVars,
                   renderMode, gProgram, gDecoderThread, gRenderMutex,
                   m_renderTex, m_videoTextures, currentTextureIdx,
                   m_fovDecodeParams, main_pc, net_pc, net_config, upd_freeIndex,
                   engineHist>>

\* A publish of the slot to be written next in place of the one written.
UpdateVideoTexture_Publish_next ==
    /\ upd_pc = "advanced"
    /\ m_renderTex' = m_currentVideoTex
    /\ upd_pc' = "idle"
    /\ engineHist' = [engineHist EXCEPT !.published = @ + 1,
                                        !.lastPublished = upd_freeIndex,
                                        !.cleared = FALSE,
                                        !.publishedSinceBegin = TRUE]
    /\ UNCHANGED <<decoderVars, mapVars, globalVars, eyeRaceVars, ctxVars, runVars, listenerVars, pairVars, filterVars, poseVars, fovVars, inputVars,
                   renderMode, gProgram, gDecoderThread, gRenderMutex,
                   m_currentVideoTex, m_videoTextures, currentTextureIdx,
                   m_fovDecodeParams, main_pc, net_pc, net_config, upd_freeIndex>>

\* Line 1764 (1654): m_renderTex.store(freeIndex), the publish; the call
\* is complete.
UpdateVideoTexture_Publish ==
    /\ upd_pc = "advanced"
    /\ m_renderTex' = upd_freeIndex
    /\ upd_pc' = "idle"
    /\ engineHist' = [engineHist EXCEPT !.published = @ + 1,
                                        !.lastPublished = upd_freeIndex,
                                        !.cleared = FALSE,
                                        !.publishedSinceBegin = TRUE]
    /\ UNCHANGED <<decoderVars, mapVars, globalVars, eyeRaceVars, ctxVars, runVars, listenerVars, pairVars, filterVars, poseVars, fovVars, inputVars,
                   renderMode, gProgram, gDecoderThread, gRenderMutex,
                   m_currentVideoTex, m_videoTextures, currentTextureIdx,
                   m_fovDecodeParams, main_pc, net_pc, net_config, upd_freeIndex>>

\* alxr_process_frame, lines 235-237: the render mutex is taken and
\* RenderFrame begins; in VideoStream mode it calls BeginVideoView (lines
\* 1769-1787), which selects the published slot.
RenderFrame_Begin ==
    /\ main_pc = "idle"
    /\ gProgram
    /\ Lockable(gRenderMutex)
    /\ gRenderMutex' = "render"
    /\ main_pc' = "begun"
    /\ IF renderMode = "VideoStream"
       THEN /\ currentTextureIdx' = m_renderTex
            /\ engineHist' =
                   [engineHist EXCEPT
                       !.begun = TRUE,
                       !.same = engineHist.begun /\ ~engineHist.publishedSinceBegin,
                       !.sameUncleared = /\ engineHist.begun
                                         /\ ~engineHist.publishedSinceBegin
                                         /\ ~engineHist.clearedSinceBegin,
                       !.publishedSinceBegin = FALSE,
                       !.clearedSinceBegin = FALSE,
                       !.selected = <<engineHist.selected[2], m_renderTex>>,
                       !.latest = engineHist.lastPublished,
                       !.updated = engineHist.published > 0,
                       !.clearedAtBegin = engineHist.cleared,
                       !.indexAtBegin = IF m_renderTex = NoTexture THEN NullFrameIndex
                                        ELSE engineHist.published,
                       !.writesSinceBegin = 0,
                       !.video = TRUE,
                       !.frameParams = m_fovDecodeParams]
       ELSE /\ engineHist' = [engineHist EXCEPT !.video = FALSE,
                                                !.frameParams = m_fovDecodeParams]
            /\ UNCHANGED currentTextureIdx
    /\ UNCHANGED <<decoderVars, mapVars, globalVars, eyeRaceVars, ctxVars, runVars, listenerVars, pairVars, filterVars, poseVars, fovVars, inputVars,
                   renderMode, gProgram, gDecoderThread, m_renderTex,
                   m_currentVideoTex, m_videoTextures, m_fovDecodeParams,
                   net_pc, net_config, upd_pc, upd_freeIndex>>

\* The rest of RenderFrame: the frame is rendered from the selected slot,
\* its frame index read by GetVideoFrameIndex, and the mutex is released
\* (alxr_process_frame, line 238).
RenderFrame_End ==
    /\ main_pc = "begun"
    /\ gRenderMutex' = "free"
    /\ main_pc' = "idle"
    /\ engineHist' =
           IF engineHist.video
           THEN [engineHist EXCEPT !.reported = <<engineHist.reported[2], GetVideoFrameIndex>>,
                                   !.sameAtReport = /\ engineHist.sameUncleared
                                                    /\ ~engineHist.publishedSinceBegin,
                                   !.videoFrames = IF @ < 2 THEN @ + 1 ELSE @]
           ELSE engineHist
    /\ UNCHANGED <<decoderVars, mapVars, globalVars, eyeRaceVars, ctxVars, runVars, listenerVars, pairVars, filterVars, poseVars, fovVars, inputVars,
                   renderMode, gProgram, gDecoderThread, ringVars, m_fovDecodeParams,
                   net_pc, net_config, upd_pc, upd_freeIndex>>

\* alxr_on_server_disconnect (lines 331-337).  The owner of the pose filter
\* discards the filter's history on this transition.
alxr_on_server_disconnect ==
    /\ net_pc = "idle"
    /\ gProgram
    /\ main_pc \in {"idle", "begun"}
    /\ SetConnected(FALSE)
    /\ renderMode' = "Lobby"
    /\ poseFilter' = PoseFilterOnDisconnect(poseFilter)
    /\ inputHist' = [inputHist EXCEPT !.pendingReset = @ \/ inputHist.filtered,
                                      !.setConnected = TRUE,
                                      !.resetSinceSent = TRUE]
    /\ UNCHANGED <<decoderVars, mapVars, globalVars, eyeRaceVars, ctxVars, runVars, listenerVars, pairVars, filterVars, fovVars, engineVars,
                   poseLast, poseTicks, poseConst>>

\* alxr_destroy, lines 202-212, with a client context and a program: the
\* input thread is stopped (Stop returns when the thread has returned), the
\* render mutex taken, and ClearVideoTextures begins: m_renderTex =
\* size_t(-1) (graphicsplugin_d3d12.cpp, line 1562).
alxr_destroy_Clear ==
    /\ main_pc = "idle"
    /\ net_pc = "idle"
    /\ ~gClientCtx.null
    /\ gProgram
    /\ Lockable(gRenderMutex)
    /\ gRenderMutex' = "destroy"
    /\ m_isConnected' = FALSE
    /\ m_isRunning' = FALSE
    /\ m_inputThread' = FALSE
    /\ it_pc' = "idle"
    /\ initHist' = [initHist EXCEPT !.call = "destroy"]
    /\ UNCHANGED <<gClientCtx, m_targetDurationUS, own_pc, nextWakeTime, steadyNow, runHist>>
    /\ m_renderTex' = NoTexture
    /\ main_pc' = "clearing"
    /\ engineHist' = [engineHist EXCEPT !.cleared = TRUE, !.clearedSinceBegin = TRUE]
    /\ UNCHANGED <<decoderVars, mapVars, eyeRaceVars, ctxVars, listenerVars, pairVars, filterVars, poseVars, fovVars,
                   renderMode, gProgram, gDecoderThread, m_currentVideoTex,
                   m_videoTextures, currentTextureIdx, m_fovDecodeParams,
                   net_pc, net_config, upd_pc, upd_freeIndex,
                   m_lastEyeInfo, inputHist>>

\* ClearVideoTextures, lines 1563-1567: m_currentVideoTex = 0 and the
\* textures are replaced; the mutex is released (alxr_destroy, line 213).
alxr_destroy_Cleared ==
    /\ main_pc = "clearing"
    /\ m_currentVideoTex' = 0
    /\ m_videoTextures' = <<NullFrameIndex, NullFrameIndex>>
    /\ gRenderMutex' = "free"
    /\ main_pc' = "cleared"
    /\ UNCHANGED <<decoderVars, mapVars, globalVars, eyeRaceVars, ctxVars, runVars, listenerVars, pairVars, filterVars, poseVars, fovVars, inputVars,
                   renderMode, gProgram, gDecoderThread, m_renderTex,
                   currentTextureIdx, m_fovDecodeParams,
                   net_pc, net_config, upd_pc, upd_freeIndex, engineHist>>

\* alxr_destroy, lines 215-217: the decoder thread is stopped, the program
\* released and then the client context.
alxr_destroy_Stop ==
    /\ main_pc = "cleared"
    /\ Joinable(upd_pc)
    /\ gDecoderThread' = FALSE
    /\ gProgram' = FALSE
    /\ gClientCtx' = NullClientCtx
    /\ UNCHANGED initHist
    /\ main_pc' = "destroyed"
    /\ UNCHANGED <<decoderVars, mapVars, eyeRaceVars, ctxVars, runVars, listenerVars, pairVars, filterVars, poseVars, fovVars, inputVars,
                   renderMode, gRenderMutex, ringVars, m_fovDecodeParams,
                   net_pc, net_config, upd_pc, upd_freeIndex, engineHist>>

(***************************************************************************)
(* XrInputThread::Update (input_thread.cpp, lines 31-71), one tick of the  *)
(* input thread.                                                           *)
(***************************************************************************)

MaxInputTicks == 3

\* 0.01f
EyeThreshold == RoundRatio(1, 100, 0)

\* std::abs(a - b) > 0.01f
AboveThreshold_any(a, b) == a # b
AboveThreshold(a, b) == FloatLess(EyeThreshold, FloatAbs(FloatSub(a, b)))

\* Lines 37-39: the eye info changed since the remembered one.
EyeInfoChanged(newEyeInfo, lastEyeInfo) ==
    \/ AboveThreshold(newEyeInfo.ipd, lastEyeInfo.ipd)
    \/ AboveThreshold(newEyeInfo.left[1], lastEyeInfo.left[1])
    \/ AboveThreshold(newEyeInfo.left[2], lastEyeInfo.left[2])

\* Lines 34-36 and 57-59: a report is sent.
SendsViewsConfig(isConnected, got, newEyeInfo, lastEyeInfo) ==
    isConnected /\ got /\ EyeInfoChanged(newEyeInfo, lastEyeInfo)

\* Lines 63-69: the tracking info is sent.
SendsInput_always(isConnected, gotTracking) == gotTracking
SendsInput(isConnected, gotTracking) == isConnected /\ gotTracking

\* What a tick leaves in the history.
TickRecord(isConnected, got, newEyeInfo, send, gotTracking, u) ==
    [inputHist EXCEPT
        !.gotTracking = gotTracking,
        !.pollActions = 1,
        !.inputSend = IF SendsInput(isConnected, gotTracking) THEN 1 ELSE 0,
        !.viewsConfigSend = IF send THEN 1 ELSE 0,
        !.ticks = @ + 1,
        !.connected = isConnected, !.got = got, !.eyeInfo = newEyeInfo,
        !.remembered = m_lastEyeInfo, !.sent = send,
        !.lastSent = IF send THEN newEyeInfo ELSE @,
        !.lastSentBefore = inputHist.lastSent,
        !.everSentBefore = inputHist.everSent,
        !.everSent = @ \/ send,
        !.previous = [got |-> inputHist.got, eyeInfo |-> inputHist.eyeInfo,
                      sent |-> inputHist.sent, tick |-> inputHist.ticks > 0],
        !.setConnected = FALSE,
        !.setConnectedBefore = inputHist.setConnected,
        !.resetSinceSent = IF send THEN FALSE ELSE @,
        !.resetBefore = inputHist.resetSinceSent,
        !.u = u,
        !.filtered = @ \/ (isConnected /\ gotTracking),
        !.afterReset = isConnected /\ gotTracking /\ inputHist.pendingReset,
        !.pendingReset = IF isConnected /\ gotTracking THEN FALSE ELSE @]

\* Update: got is what GetEyeInfo returned, newEyeInfo what it stored;
\* gotTracking is what GetTrackingInfo returned, pose the pose it samples,
\* dt the time since the last one.
XrInputThread_Update(got, newEyeInfo, gotTracking, dt, pose, u) ==
    /\ inputHist.ticks < MaxInputTicks
    /\ gProgram
    /\ main_pc \in {"idle", "begun"}
    /\ m_lastEyeInfo' =
           IF SendsViewsConfig(m_isConnected, got, newEyeInfo, m_lastEyeInfo)
           THEN newEyeInfo ELSE m_lastEyeInfo
    /\ inputHist' = TickRecord(m_isConnected, got, newEyeInfo,
                               SendsViewsConfig(m_isConnected, got, newEyeInfo, m_lastEyeInfo),
                               gotTracking, u)
    /\ IF m_isConnected /\ gotTracking
       THEN LET r == PoseFilterOnTick(poseFilter, dt, pose, u)
            IN  /\ poseFilter' = r.self
                /\ poseLast' = [dt |-> dt, x |-> pose, ret |-> r.ret]
       ELSE UNCHANGED <<poseFilter, poseLast>>
    /\ UNCHANGED <<pipeVars, mapVars, globalVars, eyeRaceVars, ctxVars, runVars, listenerVars, pairVars, filterVars, fovVars, engineVars,
                   m_isConnected, poseTicks, poseConst>>

(***************************************************************************)
(* ConnectionSpec: the input thread's ticks while the server connects and  *)
(* disconnects.                                                            *)
(***************************************************************************)

\* A stream configuration without foveation.
PlainStreamConfig == StreamConfig(FALSE, FoveationDefault)

\* The eye info of a headset: ipd 1/16, both left angles -3/4.
EyeInfoSample ==
    EyeInfo([m |-> 1, e |-> -4], [m |-> -3, e |-> -2], [m |-> -3, e |-> -2], Zero)

\* Two poses apart from each other.
ConnectionPoses ==
    {[orientation |-> <<Zero, Zero, Zero, One>>, position |-> Vector3Zero],
     [orientation |-> <<Zero, One, Zero, Zero>>,
      position |-> <<[m |-> -7, e |-> -2], One, One>>]}

\* What the unmodelled quaternion steps yield, the same quaternion for all.
ConnectionUnmodelled ==
    {u \in Unmodelled : u.dx = u.dquat /\ u.dquat = u.quat}

\* alxr_set_stream_config(config), step by step.
alxr_set_stream_config(config) ==
    \/ alxr_set_stream_config_Stop(config)
    \/ alxr_set_stream_config_Clear
    \/ alxr_set_stream_config_Foveation
    \/ alxr_set_stream_config_Connect

ConnectionInit ==
    /\ PipeInit
    /\ MapIdle
    /\ GlobalsIdle
    /\ EyeRaceIdle
    /\ CtxIdle
    /\ RunIdle
    /\ ListenerIdle
    /\ PairIdle
    /\ FilterIdle
    /\ PoseIdle
    /\ FovIdle
    /\ EngineIdle
    /\ InputIdle

ConnectionNext ==
    \/ alxr_set_stream_config(PlainStreamConfig)
    \/ alxr_on_server_disconnect
    \/ \E pose \in ConnectionPoses, u \in ConnectionUnmodelled :
           XrInputThread_Update(TRUE, EyeInfoSample, TRUE, [m |-> 1, e |-> -6], pose, u)

ConnectionSpec == ConnectionInit /\ [][ConnectionNext]_vars

\* Neither filter of the pose filter, nor a low-pass filter inside, holds
\* a previous value.
HistoryDiscarded(filter) ==
    /\ filter.rotFilter.firstTime
    /\ filter.rotFilter.xfilt.firstTime
    /\ filter.rotFilter.dxfilt.firstTime
    /\ filter.posFilter.firstTime
    /\ filter.posFilter.xfilt.firstTime
    /\ filter.posFilter.dxfilt.firstTime

MaxPairTicks == 2

PairPositions == {Vector3Zero, <<One, [m |-> -7, e |-> -2], Zero>>}

PairOrientations ==
    {<<Zero, Zero, Zero, One>>, <<[m |-> 5, e |-> -3], Zero, Zero, [m |-> 3, e |-> -2]>>}

PairPoses == [orientation : PairOrientations, position : PairPositions]

PairInit ==
    /\ PipeInit
    /\ MapIdle
    /\ GlobalsIdle
    /\ EyeRaceIdle
    /\ CtxIdle
    /\ RunIdle
    /\ ListenerIdle
    /\ FilterIdle
    /\ FovIdle
    /\ EngineIdle
    /\ InputIdle
    /\ \E params \in PoseParamsSamples :
           /\ poseFilter = XrPosefOneEuroFilter(params)
           /\ poseFilterB = XrPosefOneEuroFilter(params)
    /\ poseLast = NoPoseCall
    /\ poseLastB = NoPoseCall
    /\ poseTicks = 0
    /\ poseConst = NoPoseCall
    /\ pairHist = PairHistInit

\* One tick of both filters: filter(dt, x) on the first, filter(dt, xB) on
\* the second.
PairTick(dt, x, xB, u, uB) ==
    /\ poseTicks < MaxPairTicks
    /\ (pairHist.sameOrientation /\ x.orientation = xB.orientation) => uB = u
    /\ LET r  == XrPosefOneEuroFilter_filter(poseFilter, dt, x, u)
           rB == XrPosefOneEuroFilter_filter(poseFilterB, dt, xB, uB)
       IN  /\ poseFilter' = r.self
           /\ poseLast' = [dt |-> dt, x |-> x, ret |-> r.ret]
           /\ poseFilterB' = rB.self
           /\ poseLastB' = [dt |-> dt, x |-> xB, ret |-> rB.ret]
    /\ pairHist' = [samePosition |-> pairHist.samePosition /\ x.position = xB.position,
                    sameOrientation |-> pairHist.sameOrientation
                                            /\ x.orientation = xB.orientation,
                    differed |-> pairHist.differed \/ x # xB]
    /\ poseTicks' = poseTicks + 1
    /\ UNCHANGED <<pipeVars, mapVars, globalVars, eyeRaceVars, ctxVars, runVars, listenerVars, filterVars, fovVars, engineVars, inputVars, poseConst>>

PairNext ==
    \E dt \in DtSamples, x \in PairPoses, xB \in PairPoses,
       u \in ConnectionUnmodelled, uB \in ConnectionUnmodelled :
        PairTick(dt, x, xB, u, uB)

PairSpec == PairInit /\ [][PairNext]_vars

\* C24: the composed pose filter treats position and orientation
\* independently.  Two filters given the same positions tick after tick
\* return the same positions and hold the same position filter, whatever
\* orientations each was given; two filters given the same orientations
\* return the same orientations and hold the same rotation filter, whatever
\* positions each was given.
C24_ChannelsIndependent ==
    /\ pairHist.samePosition =>
           /\ poseLast.ret.position = poseLastB.ret.position
           /\ poseFilter.posFilter = poseFilterB.posFilter
    /\ pairHist.sameOrientation =>
           /\ poseLast.ret.orientation = poseLastB.ret.orientation
           /\ poseFilter.rotFilter = poseFilterB.rotFilter

\* Two ticks that shared the positions and not the orientations.
C24_Witness ==
    /\ poseTicks = MaxPairTicks
    /\ pairHist.samePosition
    /\ ~pairHist.sameOrientation
    /\ poseLast.x.orientation # poseLastB.x.orientation
    /\ poseLast.ret.orientation # poseLastB.ret.orientation
    /\ poseLast.ret.position # Vector3Zero

(***************************************************************************)
(* EngineSpec: the main thread (frames, then alxr_destroy), the network    *)
(* thread (alxr_set_stream_config, alxr_on_server_disconnect) and the      *)
(* decoder thread (UpdateVideoTexture), interleaved step by step.          *)
(***************************************************************************)

\* Foveation with a smaller center and a stronger compression.
FoveationStrong ==
    FoveationConfig(<<[m |-> 1, e |-> 7], [m |-> 1, e |-> 7]>>,
                    <<[m |-> 1, e |-> -2], [m |-> 1, e |-> -2]>>,
                    <<Zero, Zero>>,
                    <<[m |-> 1, e |-> 1], [m |-> 1, e |-> 1]>>)

StreamConfigSamples ==
    {PlainStreamConfig, StreamConfig(TRUE, FoveationDefault), StreamConfig(TRUE, FoveationStrong)}

EngineInit ==
    /\ PipeInit
    /\ MapIdle
    /\ GlobalsIdle
    /\ EyeRaceIdle
    /\ CtxIdle
    /\ RunIdle
    /\ ListenerIdle
    /\ PairIdle
    /\ FilterIdle
    /\ PoseIdle
    /\ FovIdle
    /\ EngineIdle
    /\ InputIdle

UpdateVideoTexture ==
    \/ UpdateVideoTexture_Write
    \/ UpdateVideoTexture_Advance
    \/ UpdateVideoTexture_Publish

RenderFrame ==
    \/ RenderFrame_Begin
    \/ RenderFrame_End

alxr_destroy ==
    \/ alxr_destroy_Clear
    \/ alxr_destroy_Cleared
    \/ alxr_destroy_Stop

EngineNext ==
    \/ \E config \in StreamConfigSamples : alxr_set_stream_config(config)
    \/ alxr_on_server_disconnect
    \/ DecoderSessionBuilt
    \/ UpdateVideoTexture
    \/ RenderFrame
    \/ alxr_destroy

EngineSpec == EngineInit /\ [][EngineNext]_vars

\* C26: the FoveatedDecodeParams change only inside alxr_set_stream_config,
\* with the decoder thread stopped and outside UpdateVideoTexture, the
\* render mutex held by the configuration change and no frame being
\* rendered; so the parameters a frame began with stay the installed ones
\* for as long as the frame is rendered.
C26_FoveationChangesOnlyInConfig ==
    [][/\ m_fovDecodeParams' # m_fovDecodeParams =>
              /\ net_pc = "cleared"
              /\ gRenderMutex = "config"
              /\ ~gDecoderThread
              /\ upd_pc = "idle"
              /\ main_pc # "begun"
       /\ main_pc' = "begun" => m_fovDecodeParams' = engineHist'.frameParams]_vars

\* A frame is being rendered with foveation parameters that the second
\* configuration change installed in place of others.
C26_Witness ==
    /\ engineHist.configs = MaxConfigs
    /\ main_pc = "begun"
    /\ engineHist.video
    /\ engineHist.frameParams.enabled
    /\ engineHist.frameParams # SetFoveatedDecode(StreamConfig(TRUE, FoveationDefault))
    /\ engineHist.published > 0

\* C29: the image-ring invariant.  An UpdateVideoTexture that completes
\* leaves m_renderTex at the slot it wrote and m_currentVideoTex at the
\* slot after it; between updates the published slot and the slot to be
\* written next differ; m_currentVideoTex is 0 or 1, m_renderTex is 0, 1 or
\* none, and it is none exactly from a ClearVideoTextures (or from
\* construction) until the next publish.
C29_ImageRingInvariant ==
    [][/\ (upd_pc = "advanced" /\ upd_pc' = "idle") =>
              /\ m_renderTex' = upd_freeIndex
              /\ m_currentVideoTex' = (upd_freeIndex + 1) % VideoTexCount
       /\ (upd_pc' = "idle" /\ m_renderTex' # NoTexture) => m_renderTex' # m_currentVideoTex'
       /\ m_currentVideoTex' \in 0 .. VideoTexCount - 1
       /\ m_renderTex' \in (0 .. VideoTexCount - 1) \cup {NoTexture}
       /\ m_renderTex' = NoTexture <=>
              (engineHist'.cleared \/ engineHist'.lastPublished = NoTexture)]_vars

C29_RingBeforeDestroy ==
    [][main_pc' \in {"idle", "begun"} =>
          /\ (upd_pc = "advanced" /\ upd_pc' = "idle") =>
                 /\ m_renderTex' = upd_freeIndex
                 /\ m_currentVideoTex' = (upd_freeIndex + 1) % VideoTexCount
          /\ (upd_pc' = "idle" /\ m_renderTex' # NoTexture) =>
                 m_renderTex' # m_currentVideoTex'
          /\ m_renderTex' = NoTexture <=>
                 (engineHist'.cleared \/ engineHist'.lastPublished = NoTexture)]_vars

\* C34 as stated: the frame index GetVideoFrameIndex returns after
\* BeginVideoView is the frame index of the image that was the most recently
\* published one at that BeginVideoView, however many times
\* UpdateVideoTexture runs between the two calls.
C34_ReportsSelectedImage ==
    (main_pc = "idle" /\ engineHist.video /\ engineHist.videoFrames >= 1) =>
        engineHist.reported[2] = engineHist.indexAtBegin

\* The report is that of the image selected as long as UpdateVideoTexture
\* has tagged no slot since BeginVideoView.
C34_ReportsSelectedUnlessWritten ==
    (main_pc = "idle" /\ engineHist.video /\ engineHist.videoFrames >= 1
        /\ engineHist.writesSinceBegin = 0) =>
        engineHist.reported[2] = engineHist.indexAtBegin

(***************************************************************************)
(* EyeSpec: the input thread's ticks with the eye info changing, while the *)
(* server connects, reconfigures and disconnects.                          *)
(***************************************************************************)

\* Interpupillary distances 1/16, 7/128 and 5/64: the first two are 1/128
\* apart, less than the threshold.  Left angles -3/4 and -7/8.
EyeInfoSamples ==
    {EyeInfo([m |-> 1, e |-> -4], [m |-> -3, e |-> -2], [m |-> -3, e |-> -2], Zero),
     EyeInfo([m |-> 7, e |-> -7], [m |-> -3, e |-> -2], [m |-> -3, e |-> -2], Zero),
     EyeInfo([m |-> 5, e |-> -6], [m |-> -3, e |-> -2], [m |-> -3, e |-> -2], Zero),
     EyeInfo([m |-> 1, e |-> -4], [m |-> -3, e |-> -2], [m |-> -7, e |-> -3], Zero),
     EyeInfo([m |-> 1, e |-> -4], [m |-> -3, e |-> -2], [m |-> -3, e |-> -2], One)}

EyeInit ==
    /\ PipeInit
    /\ MapIdle
    /\ GlobalsIdle
    /\ EyeRaceIdle
    /\ CtxIdle
    /\ RunIdle
    /\ ListenerIdle
    /\ PairIdle
    /\ FilterIdle
    /\ PoseIdle
    /\ FovIdle
    /\ EngineIdle
    /\ InputIdle

EyeNext ==
    \/ alxr_set_stream_config(PlainStreamConfig)
    \/ alxr_on_server_disconnect
    \/ \E got \in BOOLEAN, newEyeInfo \in EyeInfoSamples, gotTracking \in BOOLEAN :
           XrInputThread_Update(got, newEyeInfo, gotTracking, [m |-> 1, e |-> -6],
                                XrPosefIdentity, NoUnmodelled)

EyeSpec == EyeInit /\ [][EyeNext]_vars

\* |a - b| > 1/100, in exact arithmetic.
ApartByMoreThanHundredth(a, b) ==
    LET e == IF a.e < b.e THEN a.e ELSE b.e
    IN  100 * Abs(a.m * 2^(a.e - e) - b.m * 2^(b.e - e)) * 2^(e + 16) > 2^16

\* The two eye infos differ by more than 0.01 in the ipd or in the left
\* angle of either eye.
EyeInfoDiffers(a, b) ==
    \/ ApartByMoreThanHundredth(a.ipd, b.ipd)
    \/ ApartByMoreThanHundredth(a.left[1], b.left[1])
    \/ ApartByMoreThanHundredth(a.left[2], b.left[2])

MaxImages == 3

\* Whether the listener's members still exist.
ListenerDestroyed == lsn_pc = "destroyed"

\* The image reader has an image and posts a callback to its listener.
ImagePosted ==
    /\ lsnRegistered
    /\ lsnHist.posted < MaxImages
    /\ lsnPending' = lsnPending + 1
    /\ lsnHist' = [lsnHist EXCEPT !.posted = @ + 1]
    /\ UNCHANGED <<pipeVars, mapVars, globalVars, eyeRaceVars, ctxVars, runVars, filterVars, poseVars, fovVars, engineVars, inputVars,
                   pairVars, lsn_pc, cb_pc, listenerDestroyMutex, lsnRegistered>>

\* Lines 219-223: the reader's thread calls the static OnImageAvailable
\* with the listener as context.
OnImageAvailable_Enter ==
    /\ cb_pc = "idle"
    /\ lsnPending > 0
    /\ lsnPending' = lsnPending - 1
    /\ cb_pc' = "entered"
    /\ lsnHist' = [lsnHist EXCEPT !.enteredLate = @ \/ ~lsnRegistered]
    /\ UNCHANGED <<pipeVars, mapVars, globalVars, eyeRaceVars, ctxVars, runVars, filterVars, poseVars, fovVars, engineVars, inputVars,
                   pairVars, lsn_pc, listenerDestroyMutex, lsnRegistered>>

\* Line 181: std::scoped_lock sl(listenerDestroyMutex).
OnImageAvailable_Lock ==
    /\ cb_pc = "entered"
    /\ Lockable(listenerDestroyMutex)
    /\ listenerDestroyMutex' = "callback"
    /\ cb_pc' = "locked"
    /\ lsnHist' = [lsnHist EXCEPT !.usedDestroyed = @ \/ ListenerDestroyed]
    /\ UNCHANGED <<pipeVars, mapVars, globalVars, eyeRaceVars, ctxVars, runVars, filterVars, poseVars, fovVars, engineVars, inputVars,
                   pairVars, lsn_pc, lsnRegistered, lsnPending>>

\* Lines 183-216: the image is acquired, frameIndexMap.get_clear and
\* programPtr->GetGraphicsPlugin are called.
OnImageAvailable_Body ==
    /\ cb_pc = "locked"
    /\ cb_pc' = "handled"
    /\ lsnHist' = [lsnHist EXCEPT !.usedDestroyed = @ \/ ListenerDestroyed]
    /\ UNCHANGED <<pipeVars, mapVars, globalVars, eyeRaceVars, ctxVars, runVars, filterVars, poseVars, fovVars, engineVars, inputVars,
                   pairVars, lsn_pc, listenerDestroyMutex, lsnRegistered, lsnPending>>

\* Line 217: the scoped_lock releases the mutex and the callback returns.
OnImageAvailable_Unlock ==
    /\ cb_pc = "handled"
    /\ listenerDestroyMutex' = "free"
    /\ cb_pc' = "idle"
    /\ lsnHist' = [lsnHist EXCEPT !.usedDestroyed = @ \/ ListenerDestroyed,
                                  !.completed = @ + 1]
    /\ UNCHANGED <<pipeVars, mapVars, globalVars, eyeRaceVars, ctxVars, runVars, filterVars, poseVars, fovVars, engineVars, inputVars,
                   pairVars, lsn_pc, lsnRegistered, lsnPending>>

\* ~XrImageListener, line 149: the mutex is taken.
XrImageListener_destroy_Lock ==
    /\ lsn_pc = "alive"
    /\ Lockable(listenerDestroyMutex)
    /\ listenerDestroyMutex' = "destructor"
    /\ lsn_pc' = "locked"
    /\ UNCHANGED <<pipeVars, mapVars, globalVars, eyeRaceVars, ctxVars, runVars, filterVars, poseVars, fovVars, engineVars, inputVars,
                   pairVars, cb_pc, lsnRegistered, lsnPending, lsnHist>>

\* Lines 150-152: AImageReader_setImageListener(reader, nullptr).
XrImageListener_destroy_Unregister ==
    /\ lsn_pc = "locked"
    /\ lsnRegistered' = FALSE
    /\ lsn_pc' = "unregistered"
    /\ UNCHANGED <<pipeVars, mapVars, globalVars, eyeRaceVars, ctxVars, runVars, filterVars, poseVars, fovVars, engineVars, inputVars,
                   pairVars, cb_pc, listenerDestroyMutex, lsnPending, lsnHist>>

\* Line 153: the mutex is released.
XrImageListener_destroy_Unlock ==
    /\ lsn_pc = "unregistered"
    /\ listenerDestroyMutex' = "free"
    /\ lsn_pc' = "unlocked"
    /\ UNCHANGED <<pipeVars, mapVars, globalVars, eyeRaceVars, ctxVars, runVars, filterVars, poseVars, fovVars, engineVars, inputVars,
                   pairVars, cb_pc, lsnRegistered, lsnPending, lsnHist>>

\* Line 155: the destructor's body ends and the members are destroyed,
\* listenerDestroyMutex (lines 101-103) the first of them.
XrImageListener_destroy_Members ==
    /\ lsn_pc = "unlocked"
    /\ lsn_pc' = "destroyed"
    /\ UNCHANGED <<pipeVars, mapVars, globalVars, eyeRaceVars, ctxVars, runVars, filterVars, poseVars, fovVars, engineVars, inputVars,
                   pairVars, cb_pc, listenerDestroyMutex, lsnRegistered, lsnPending, lsnHist>>

XrImageListener_OnImageAvailable ==
    \/ OnImageAvailable_Enter
    \/ OnImageAvailable_Lock
    \/ OnImageAvailable_Body
    \/ OnImageAvailable_Unlock

XrImageListener_destroy ==
    \/ XrImageListener_destroy_Lock
    \/ XrImageListener_destroy_Unregister
    \/ XrImageListener_destroy_Unlock
    \/ XrImageListener_destroy_Members

ListenerInit ==
    /\ PipeInit
    /\ MapIdle
    /\ GlobalsIdle
    /\ EyeRaceIdle
    /\ CtxIdle
    /\ RunIdle
    /\ PairIdle
    /\ FilterIdle
    /\ PoseIdle
    /\ FovIdle
    /\ EngineIdle
    /\ InputIdle
    /\ ListenerIdle

ListenerNext ==
    \/ ImagePosted
    \/ XrImageListener_OnImageAvailable
    \/ XrImageListener_destroy

ListenerSpec == ListenerInit /\ [][ListenerNext]_vars

\* C30: teardown tolerates a late callback.  Whatever the interleaving of
\* OnImageAvailable with ~XrImageListener, no callback takes or releases
\* the listener's mutex or uses its frameIndexMap or programPtr after the
\* listener was destroyed.
C30_NoCallbackOnDestroyedListener == ~lsnHist.usedDestroyed

\* The callback's body and the destructor's body exclude each other.
C30_BodiesExclusive ==
    ~(cb_pc \in {"locked", "handled"} /\ lsn_pc \in {"locked", "unregistered"})

\* The packet QueuePacket recorded last.
LastRecorded == pkts[Len(pkts)]

\* C31: record before submit.  When QueuePacket is about to hand the input
\* buffer of a data packet to the decoder, set(pts, trackingFrameIndex) has
\* been made for it and no callback has had the buffer yet: the slot holds
\* the index unless a packet in flight shares it.  Every buffer the codec
\* holds, and every buffer an output-ready or image-ready callback looked
\* up, is of a packet recorded and submitted before.
C31_RecordBeforeSubmit ==
    /\ (qp_pc = "submit" /\ ~is_config(qp_pkt)) =>
           /\ Len(pkts) > 0
           /\ LastRecorded.pts = qp_pts
           /\ LastRecorded.idx = qp_idx
           /\ LastRecorded.stage = "recorded"
           /\ Len(pkts) \notin codecPending
           /\ ~LastRecorded.aliased => get(frameMap, qp_pts) = qp_idx
    /\ \A p \in codecPending \ {ConfigOutput} :
           p \in DOMAIN pkts /\ pkts[p].stage = "pending"
    /\ \A i \in DOMAIN releasedLog :
           releasedLog[i].buf.pkt # ConfigOutput =>
               /\ releasedLog[i].buf.pkt \in DOMAIN pkts
               /\ pkts[releasedLog[i].buf.pkt].stage \notin {"recorded", "pending", "failed"}
               /\ pkts[releasedLog[i].buf.pkt].pts = releasedLog[i].buf.presentationTimeUs
    /\ \A i \in DOMAIN imageLog :
           /\ imageLog[i].pkt \in DOMAIN pkts
           /\ pkts[imageLog[i].pkt].stage \notin {"recorded", "pending", "failed"}
           /\ SameSlot(pkts[imageLog[i].pkt].pts, imageLog[i].ptsUs)

\* A second data packet is about to be submitted while the first one's
\* buffer has been looked up by both callbacks.
C31_Witness ==
    /\ qp_pc = "submit"
    /\ ~is_config(qp_pkt)
    /\ Len(pkts) = 2
    /\ ~LastRecorded.aliased
    /\ \E i \in DOMAIN releasedLog : releasedLog[i].buf.pkt = 1 /\ releasedLog[i].calledOut
    /\ \E i \in DOMAIN imageLog : imageLog[i].pkt = 1

\* C32: the input thread ticks whether connected or not and reports nothing
\* while disconnected.  A tick that found m_isConnected false called
\* PollActions and neither inputSend nor viewsConfigSend; a tick that found
\* it true and got tracking info called inputSend exactly once; every tick
\* called PollActions once.
C32_SilentWhileDisconnected ==
    inputHist.ticks > 0 =>
        /\ inputHist.pollActions = 1
        /\ ~inputHist.connected =>
               inputHist.inputSend = 0 /\ inputHist.viewsConfigSend = 0
        /\ (inputHist.connected /\ inputHist.gotTracking) => inputHist.inputSend = 1
        /\ inputHist.inputSend <= 1
        /\ inputHist.viewsConfigSend <= 1

\* A tick while disconnected, tracking info at hand, after a tick that had
\* sent both reports.
C32_Witness ==
    /\ inputHist.ticks > 1
    /\ ~inputHist.connected
    /\ inputHist.gotTracking
    /\ inputHist.got
    /\ inputHist.previous.sent
    /\ inputHist.everSent
    /\ inputHist.setConnectedBefore

\* ---------------------------------------------------------------------------
\* XrInputThread: Start, Stop and the loop of Run (input_thread.h, lines
\* 70-90; input_thread.cpp, lines 98-114).  Times are in one unit, the
\* unit of m_targetDurationUS.
\* ---------------------------------------------------------------------------

\* Latest value of XrSteadyClock at which an iteration of the loop starts.
MaxTime == 6

\* Longest time one call of Update takes.
MaxElapsed == 4

\* Largest target frame duration.
MaxTargetDuration == 3

\* Number of calls of Start.
MaxStarts == 2

\* input_thread.cpp, line 110: the division of two non-negative durations.
MissedIntervals(currentTime, wakeTime, targetFrameDuration) ==
    ((currentTime - wakeTime) \div targetFrameDuration) + 1

\* input_thread.cpp, lines 108-112, for wakeTime the value after line 105.
AdjustedWakeTime(currentTime, wakeTime, targetFrameDuration) ==
    IF wakeTime <= currentTime
    THEN currentTime + MissedIntervals(currentTime, wakeTime, targetFrameDuration) * targetFrameDuration
    ELSE wakeTime

\* std::thread::join returns when the thread's function has returned.
ThreadFinished_any(pc) == TRUE
ThreadFinished(pc) == pc = "idle"

\* input_thread.h, lines 70-74, for a frame rate that gives the duration d.
XrInputThread_SetTargetFrameRate(d) ==
    /\ m_targetDurationUS' = d
    /\ m_targetDurationUS # d
    /\ UNCHANGED <<pipeVars, mapVars, globalVars, eyeRaceVars, ctxVars, filterVars, poseVars, fovVars, engineVars, inputVars,
                   pairVars, listenerVars, enqueuedLog, releasedLog>>
    /\ UNCHANGED <<m_isRunning, m_inputThread, it_pc, own_pc, nextWakeTime, steadyNow, runHist>>

\* input_thread.h, lines 77-78 (Stop on its own, or as the first statement of Start).
XrInputThread_Stop_Clear(caller) ==
    /\ own_pc = "idle"
    /\ caller = "start" => runHist.starts < MaxStarts
    /\ m_isConnected' = FALSE
    /\ m_isRunning' = FALSE
    /\ own_pc' = IF caller = "start" THEN "start_join" ELSE "stop_join"
    /\ UNCHANGED <<pipeVars, mapVars, globalVars, eyeRaceVars, ctxVars, filterVars, poseVars, fovVars, engineVars,
                   pairVars, listenerVars, enqueuedLog, releasedLog>>
    /\ UNCHANGED <<m_lastEyeInfo, inputHist>>
    /\ UNCHANGED <<m_inputThread, m_targetDurationUS, it_pc, nextWakeTime, steadyNow, runHist>>

\* input_thread.h, lines 79-81.
XrInputThread_Stop_Join ==
    /\ own_pc \in {"stop_join", "start_join"}
    /\ m_inputThread => ThreadFinished(it_pc)
    /\ m_inputThread' = FALSE
    /\ own_pc' = IF own_pc = "start_join" THEN "start_spawn" ELSE "idle"
    /\ runHist' = [runHist EXCEPT !.stopped = TRUE, !.updatesSinceStop = 0]
    /\ UNCHANGED <<pipeVars, mapVars, globalVars, eyeRaceVars, ctxVars, filterVars, poseVars, fovVars, engineVars, inputVars,
                   pairVars, listenerVars, enqueuedLog, releasedLog>>
    /\ UNCHANGED <<m_isRunning, m_targetDurationUS, it_pc, nextWakeTime, steadyNow>>

\* input_thread.h, lines 86-89.
XrInputThread_Start_Spawn ==
    /\ own_pc = "start_spawn"
    /\ m_isRunning' = TRUE
    /\ m_inputThread' = TRUE
    /\ it_pc' = "entry"
    /\ own_pc' = "idle"
    /\ runHist' = [runHist EXCEPT !.stopped = FALSE, !.starts = @ + 1, !.runners = @ + 1]
    /\ UNCHANGED <<pipeVars, mapVars, globalVars, eyeRaceVars, ctxVars, filterVars, poseVars, fovVars, engineVars, inputVars,
                   pairVars, listenerVars, enqueuedLog, releasedLog>>
    /\ UNCHANGED <<m_targetDurationUS, nextWakeTime, steadyNow>>

\* input_thread.cpp, line 98.
XrInputThread_Run_Enter ==
    /\ it_pc = "entry"
    /\ nextWakeTime' = steadyNow
    /\ it_pc' = "loop"
    /\ UNCHANGED <<pipeVars, mapVars, globalVars, eyeRaceVars, ctxVars, filterVars, poseVars, fovVars, engineVars, inputVars,
                   pairVars, listenerVars, enqueuedLog, releasedLog>>
    /\ UNCHANGED <<m_isRunning, m_inputThread, m_targetDurationUS, own_pc, steadyNow, runHist>>

\* input_thread.cpp, line 99: the test of the loop.
XrInputThread_Run_Test ==
    /\ it_pc = "loop"
    /\ m_isRunning => steadyNow < MaxTime
    /\ it_pc' = IF m_isRunning THEN "update" ELSE "idle"
    /\ runHist' = IF m_isRunning THEN runHist ELSE [runHist EXCEPT !.runners = @ - 1]
    /\ UNCHANGED <<pipeVars, mapVars, globalVars, eyeRaceVars, ctxVars, filterVars, poseVars, fovVars, engineVars, inputVars,
                   pairVars, listenerVars, enqueuedLog, releasedLog>>
    /\ UNCHANGED <<m_isRunning, m_inputThread, m_targetDurationUS, own_pc, nextWakeTime, steadyNow>>

\* input_thread.cpp, line 101: one tick, which takes the time elapsed.
XrInputThread_Run_Update(elapsed) ==
    /\ it_pc = "update"
    /\ steadyNow' = steadyNow + elapsed
    /\ it_pc' = "wake"
    /\ runHist' = [runHist EXCEPT !.updates = @ + 1,
                                  !.updatesSinceStop = IF runHist.stopped THEN @ + 1 ELSE @,
                                  !.adjusted = FALSE]
    /\ UNCHANGED <<pipeVars, mapVars, globalVars, eyeRaceVars, ctxVars, filterVars, poseVars, fovVars, engineVars, inputVars,
                   pairVars, listenerVars, enqueuedLog, releasedLog>>
    /\ UNCHANGED <<m_isRunning, m_inputThread, m_targetDurationUS, own_pc, nextWakeTime>>

\* input_thread.cpp, lines 103-112.
XrInputThread_Run_Wake ==
    /\ it_pc = "wake"
    /\ LET targetFrameDuration == m_targetDurationUS
           wakeTime == nextWakeTime + targetFrameDuration
           currentTime == steadyNow
       IN  /\ nextWakeTime' = AdjustedWakeTime(currentTime, wakeTime, targetFrameDuration)
           /\ runHist' = [runHist EXCEPT
                  !.adjusted = TRUE,
                  !.behind = (wakeTime <= currentTime),
                  !.currentTime = currentTime,
                  !.targetFrameDuration = targetFrameDuration,
                  !.missedIntervals =
                      IF wakeTime <= currentTime
                      THEN MissedIntervals(currentTime, wakeTime, targetFrameDuration)
                      ELSE 0]
    /\ it_pc' = "sleep"
    /\ UNCHANGED <<pipeVars, mapVars, globalVars, eyeRaceVars, ctxVars, filterVars, poseVars, fovVars, engineVars, inputVars,
                   pairVars, listenerVars, enqueuedLog, releasedLog>>
    /\ UNCHANGED <<m_isRunning, m_inputThread, m_targetDurationUS, own_pc, steadyNow>>

\* input_thread.cpp, line 113.
XrInputThread_Run_Sleep ==
    /\ it_pc = "sleep"
    /\ steadyNow' = IF nextWakeTime > steadyNow THEN nextWakeTime ELSE steadyNow
    /\ it_pc' = "loop"
    /\ UNCHANGED <<pipeVars, mapVars, globalVars, eyeRaceVars, ctxVars, filterVars, poseVars, fovVars, engineVars, inputVars,
                   pairVars, listenerVars, enqueuedLog, releasedLog>>
    /\ UNCHANGED <<m_isRunning, m_inputThread, m_targetDurationUS, own_pc, nextWakeTime, runHist>>

XrInputThread_Stop ==
    \/ XrInputThread_Stop_Clear("stop")
    \/ XrInputThread_Stop_Join

XrInputThread_Start ==
    \/ XrInputThread_Stop_Clear("start")
    \/ XrInputThread_Start_Spawn

XrInputThread_Run ==
    \/ XrInputThread_Run_Enter
    \/ XrInputThread_Run_Test
    \/ \E elapsed \in 0..MaxElapsed : XrInputThread_Run_Update(elapsed)
    \/ XrInputThread_Run_Wake
    \/ XrInputThread_Run_Sleep

RunInit ==
    /\ PipeInit /\ MapIdle /\ FilterIdle /\ PoseIdle /\ FovIdle /\ EngineIdle /\ InputIdle
    /\ PairIdle /\ ListenerIdle /\ CtxIdle /\ EyeRaceIdle /\ GlobalsIdle
    /\ m_isRunning = FALSE
    /\ m_inputThread = FALSE
    /\ m_targetDurationUS \in 1..MaxTargetDuration
    /\ it_pc = "idle"
    /\ own_pc = "idle"
    /\ nextWakeTime = 0
    /\ steadyNow = 0
    /\ runHist = RunHistInit

RunNext ==
    \/ XrInputThread_Start
    \/ XrInputThread_Stop
    \/ XrInputThread_Run
    \/ \E d \in 1..MaxTargetDuration : XrInputThread_SetTargetFrameRate(d)

RunSpec == RunInit /\ [][RunNext]_vars

\* The threads take their steps: the input thread is scheduled, its sleep
\* ends, and a join returns once the thread has returned.
FairRunSpec ==
    RunSpec /\ WF_vars(XrInputThread_Run) /\ WF_vars(XrInputThread_Stop_Join)

\* C33 as stated: when the loop finds nextWakeTime not later than the
\* current time, the adjusted nextWakeTime is strictly later than the current
\* time and at most one targetFrameDuration later than it, however many
\* intervals were missed.
C33_WakeWithinOneInterval ==
    (it_pc = "sleep" /\ runHist.behind) =>
        /\ runHist.currentTime < nextWakeTime
        /\ nextWakeTime <= runHist.currentTime + runHist.targetFrameDuration

\* What the loop does: the adjusted nextWakeTime is the current time plus
\* as many target durations as intervals were missed, so it is strictly
\* later than the current time, and one duration later only when less than
\* one whole interval was missed.
C33_WakeAfterMissedIntervals ==
    (it_pc = "sleep" /\ runHist.behind) =>
        /\ runHist.currentTime < nextWakeTime
        /\ runHist.missedIntervals >= 1
        /\ nextWakeTime = runHist.currentTime + runHist.missedIntervals * runHist.targetFrameDuration

\* The owner's thread is inside the join of Stop.
StopJoining == own_pc \in {"stop_join", "start_join"}

\* At most one thread is inside Run; after a Stop has returned, and until
\* the next Start spawns, none is and no Update is called.
OneInputThread ==
    /\ runHist.runners <= 1
    /\ (runHist.runners = 0) = (it_pc = "idle")
    /\ own_pc = "start_spawn" => (runHist.runners = 0 /\ ~m_inputThread)
    /\ runHist.stopped => (runHist.runners = 0 /\ runHist.updatesSinceStop = 0)

\* C38: at most one input thread executes Run at any time: Start performs
\* Stop (clear the running flag, join) before it spawns, no Update tick
\* happens between the return of a Stop and the next Start, and every Stop
\* returns.
C38_SingleInputThread == []OneInputThread /\ (StopJoining ~> ~StopJoining)

\* A second Start has replaced a thread that had ticked, and a Stop has
\* then returned.
C38_Witness ==
    /\ runHist.starts = 2
    /\ runHist.updates >= 2
    /\ runHist.stopped
    /\ own_pc = "idle"

\* C35 as stated: in alxr_destroy, once ClearVideoTextures has run no
\* decoded image is published any more: no UpdateVideoTexture begins or
\* completes between it and the release of the program, and m_renderTex
\* stays 'none' for the rest of the shutdown.
C35_NoPublishAfterClear ==
    /\ [](main_pc \in {"cleared", "destroyed"} => m_renderTex = NoTexture)
    /\ [][main_pc = "cleared" => upd_pc' = upd_pc]_vars

\* Once the decoder thread is stopped (alxr_destroy, line 215) no
\* UpdateVideoTexture is in progress and nothing is published any more.
C35_NoPublishAfterStop ==
    /\ [](main_pc = "destroyed" => (upd_pc = "idle" /\ ~gDecoderThread))
    /\ [][main_pc = "destroyed" => (upd_pc' = upd_pc /\ m_renderTex' = m_renderTex)]_vars

\* ---------------------------------------------------------------------------
\* The decoder session held in m_codecCtx, a plain std::shared_ptr<CodecCtx>
\* (decoderplugin_mediacodec.cpp, lines 252-270): QueuePacket assigns it on
\* the network thread (lines 292-294), waitForCodecCtx copies it on the
\* decode-consumer thread (lines 507-516), and nothing orders the two.  A
\* shared_ptr is two words, the stored pointer and the control block, each
\* written and read on its own; sessions are numbered from 1, 0 is null.
\* ---------------------------------------------------------------------------

\* Packets QueuePacket is called with.
MaxCtxPackets == 2

\* Output buffers Run releases.
MaxReleases == 2

\* A CodecCtx as MakeCodecContext returns it (lines 490-505): the listener
\* registered and the codec started, owned by the shared_ptr returned.
StartedSession == [useCount |-> 1, codec |-> "started", listener |-> "registered"]

\* The destruction of a CodecCtx, one step: the destructor's body stops the
\* codec (lines 263-268), then the members go in reverse order of
\* declaration (lines 253-254): the codec is deleted (AMediaCodecDeleter,
\* lines 225-232), then ~XrImageListener unregisters the listener (lines
\* 146-155).
CodecCtx_destroy_listenerFirst(session) ==
    IF session.listener = "registered" THEN [session EXCEPT !.listener = "unregistered"]
    ELSE IF session.codec = "started" THEN [session EXCEPT !.codec = "stopped"]
    ELSE [session EXCEPT !.codec = "deleted"]
CodecCtx_destroy(session) ==
    IF session.codec = "started" THEN [session EXCEPT !.codec = "stopped"]
    ELSE IF session.codec = "stopped" THEN [session EXCEPT !.codec = "deleted"]
    ELSE [session EXCEPT !.listener = "unregistered"]

\* The last owner is gone and the destruction is not finished.
SessionDying(session) ==
    /\ session.useCount = 0
    /\ session.listener = "registered" \/ session.codec \in {"started", "stopped"}

\* A shared_ptr with control block c goes away.
ReleaseOwner(session, c) ==
    IF c # 0 THEN [session EXCEPT !.useCount = @ - 1] ELSE session

\* Lines 289-293: find_vpssps, the null test and MakeCodecContext, whose
\* result is a temporary.
QueuePacket_MakeCodecContext(vpssps, step) ==
    /\ ctx_qp_pc = "idle"
    /\ ctx_own_pc = "running"
    /\ ctxHist.packets < MaxCtxPackets
    /\ NeedsSession(codecCtxRep.ptr, vpssps)
    /\ ctx_qp_new' = IF MakeCodecContext(step) THEN 1 ELSE 0
    /\ ctx_session' = IF MakeCodecContext(step) THEN StartedSession ELSE ctx_session
    /\ ctx_qp_pc' = "made"
    /\ ctxHist' = [ctxHist EXCEPT !.packets = @ + 1]
    /\ UNCHANGED <<pipeVars, mapVars, globalVars, eyeRaceVars, filterVars, poseVars, fovVars, engineVars, inputVars,
                   pairVars, listenerVars, runVars, enqueuedLog, releasedLog>>
    /\ UNCHANGED <<codecCtxRep, runCodecCtx, ctx_run_pc, ctx_own_pc, ctx_token>>

\* Line 293, the move assignment: the stored pointer is written.
QueuePacket_AssignPtr ==
    /\ ctx_qp_pc = "made"
    /\ codecCtxRep' = [codecCtxRep EXCEPT !.ptr = ctx_qp_new]
    /\ ctx_qp_pc' = "ptr_written"
    /\ UNCHANGED <<pipeVars, mapVars, globalVars, eyeRaceVars, filterVars, poseVars, fovVars, engineVars, inputVars,
                   pairVars, listenerVars, runVars, enqueuedLog, releasedLog>>
    /\ UNCHANGED <<runCodecCtx, ctx_qp_new, ctx_run_pc, ctx_own_pc, ctx_token, ctx_session,
                   ctxHist>>

\* Line 293, the move assignment: the control block is written; the
\* temporary, now empty, goes away.
QueuePacket_AssignCtrl ==
    /\ ctx_qp_pc = "ptr_written"
    /\ codecCtxRep' = [codecCtxRep EXCEPT !.ctrl = ctx_qp_new]
    /\ ctx_qp_pc' = "idle"
    /\ UNCHANGED <<pipeVars, mapVars, globalVars, eyeRaceVars, filterVars, poseVars, fovVars, engineVars, inputVars,
                   pairVars, listenerVars, runVars, enqueuedLog, releasedLog>>
    /\ UNCHANGED <<runCodecCtx, ctx_qp_new, ctx_run_pc, ctx_own_pc, ctx_token, ctx_session,
                   ctxHist>>

\* Run, lines 521-524: the token is tested on entry.
Run_TestToken ==
    /\ ctx_run_pc = "idle"
    /\ ctx_run_pc' = IF ctx_token THEN "waitCtx" ELSE "done"
    /\ UNCHANGED <<pipeVars, mapVars, globalVars, eyeRaceVars, filterVars, poseVars, fovVars, engineVars, inputVars,
                   pairVars, listenerVars, runVars, enqueuedLog, releasedLog>>
    /\ UNCHANGED <<codecCtxRep, runCodecCtx, ctx_qp_pc, ctx_qp_new, ctx_own_pc, ctx_token,
                   ctx_session, ctxHist>>

\* waitForCodecCtx, line 509: the test of the loop; a cleared token gives
\* an empty pointer (line 515).
waitForCodecCtx_Test ==
    /\ ctx_run_pc = "waitCtx"
    /\ ctx_run_pc' = IF ctx_token THEN "copy" ELSE "loop"
    /\ runCodecCtx' = NullCodecCtx
    /\ UNCHANGED <<pipeVars, mapVars, globalVars, eyeRaceVars, filterVars, poseVars, fovVars, engineVars, inputVars,
                   pairVars, listenerVars, runVars, enqueuedLog, releasedLog>>
    /\ UNCHANGED <<codecCtxRep, ctx_qp_pc, ctx_qp_new, ctx_own_pc, ctx_token, ctx_session,
                   ctxHist>>

\* Line 510, the copy: the stored pointer is read.
waitForCodecCtx_CopyPtr ==
    /\ ctx_run_pc = "copy"
    /\ runCodecCtx' = [runCodecCtx EXCEPT !.ptr = codecCtxRep.ptr]
    /\ ctx_run_pc' = "ptr_read"
    /\ UNCHANGED <<pipeVars, mapVars, globalVars, eyeRaceVars, filterVars, poseVars, fovVars, engineVars, inputVars,
                   pairVars, listenerVars, runVars, enqueuedLog, releasedLog>>
    /\ UNCHANGED <<codecCtxRep, ctx_qp_pc, ctx_qp_new, ctx_own_pc, ctx_token, ctx_session,
                   ctxHist>>

\* Lines 510-513, the copy: the control block is read and its use count
\* raised; a copy whose stored pointer is null goes away again and the
\* thread sleeps 100ms, any other is returned.
waitForCodecCtx_CopyCtrl ==
    /\ ctx_run_pc = "ptr_read"
    /\ IF runCodecCtx.ptr # 0
       THEN /\ runCodecCtx' = [runCodecCtx EXCEPT !.ctrl = codecCtxRep.ctrl]
            /\ ctx_session' = IF codecCtxRep.ctrl # 0
                              THEN [ctx_session EXCEPT !.useCount = @ + 1]
                              ELSE ctx_session
            /\ ctx_run_pc' = "loop"
       ELSE /\ runCodecCtx' = NullCodecCtx
            /\ ctx_session' = ctx_session
            /\ ctx_run_pc' = "waitCtx"
    /\ UNCHANGED <<pipeVars, mapVars, globalVars, eyeRaceVars, filterVars, poseVars, fovVars, engineVars, inputVars,
                   pairVars, listenerVars, runVars, enqueuedLog, releasedLog>>
    /\ UNCHANGED <<codecCtxRep, ctx_qp_pc, ctx_qp_new, ctx_own_pc, ctx_token, ctxHist>>

\* Run, lines 528-539: one iteration that dequeues an output buffer and
\* releases it to codecCtx->codec, or the end of the loop.
Run_Release ==
    /\ ctx_run_pc = "loop"
    /\ IF ctx_token
       THEN /\ ctxHist.releases < MaxReleases
            /\ ctxHist' = [ctxHist EXCEPT !.releases = @ + 1,
                                          !.releasedDead = @ \/ ctx_session.codec # "started"]
            /\ ctx_run_pc' = "loop"
       ELSE /\ ctxHist' = ctxHist
            /\ ctx_run_pc' = "return"
    /\ UNCHANGED <<pipeVars, mapVars, globalVars, eyeRaceVars, filterVars, poseVars, fovVars, engineVars, inputVars,
                   pairVars, listenerVars, runVars, enqueuedLog, releasedLog>>
    /\ UNCHANGED <<codecCtxRep, runCodecCtx, ctx_qp_pc, ctx_qp_new, ctx_own_pc, ctx_token,
                   ctx_session>>

\* Run, lines 541-542: Run returns and its codecCtx goes away.
Run_Return ==
    /\ ctx_run_pc = "return"
    /\ ctx_session' = ReleaseOwner(ctx_session, runCodecCtx.ctrl)
    /\ runCodecCtx' = NullCodecCtx
    /\ ctx_run_pc' = "done"
    /\ UNCHANGED <<pipeVars, mapVars, globalVars, eyeRaceVars, filterVars, poseVars, fovVars, engineVars, inputVars,
                   pairVars, listenerVars, runVars, enqueuedLog, releasedLog>>
    /\ UNCHANGED <<codecCtxRep, ctx_qp_pc, ctx_qp_new, ctx_own_pc, ctx_token, ctxHist>>

\* The owner of the decoder thread stops it: the token is cleared first.
DecoderThread_Stop_Clear ==
    /\ ctx_own_pc = "running"
    /\ ctx_token' = FALSE
    /\ ctx_own_pc' = "joining"
    /\ UNCHANGED <<pipeVars, mapVars, globalVars, eyeRaceVars, filterVars, poseVars, fovVars, engineVars, inputVars,
                   pairVars, listenerVars, runVars, enqueuedLog, releasedLog>>
    /\ UNCHANGED <<codecCtxRep, runCodecCtx, ctx_qp_pc, ctx_qp_new, ctx_run_pc, ctx_session,
                   ctxHist>>

\* The owner joins the thread of Run and, with no QueuePacket in progress,
\* releases the plugin: m_codecCtx goes away with it.
DecoderThread_Stop_Join ==
    /\ ctx_own_pc = "joining"
    /\ ctx_run_pc = "done"
    /\ ctx_qp_pc = "idle"
    /\ ctx_session' = ReleaseOwner(ctx_session, codecCtxRep.ctrl)
    /\ codecCtxRep' = NullCodecCtx
    /\ ctx_own_pc' = "released"
    /\ UNCHANGED <<pipeVars, mapVars, globalVars, eyeRaceVars, filterVars, poseVars, fovVars, engineVars, inputVars,
                   pairVars, listenerVars, runVars, enqueuedLog, releasedLog>>
    /\ UNCHANGED <<runCodecCtx, ctx_qp_pc, ctx_qp_new, ctx_run_pc, ctx_token, ctxHist>>

\* ~CodecCtx, one step, in the thread that released the last owner.
CodecCtx_destroy_Step ==
    /\ SessionDying(ctx_session)
    /\ ctx_session' = CodecCtx_destroy(ctx_session)
    /\ UNCHANGED <<pipeVars, mapVars, globalVars, eyeRaceVars, filterVars, poseVars, fovVars, engineVars, inputVars,
                   pairVars, listenerVars, runVars, enqueuedLog, releasedLog>>
    /\ UNCHANGED <<codecCtxRep, runCodecCtx, ctx_qp_pc, ctx_qp_new, ctx_run_pc, ctx_own_pc,
                   ctx_token, ctxHist>>

QueuePacket_AssignCodecCtx ==
    \/ \E vpssps \in BOOLEAN, step \in BuildSteps : QueuePacket_MakeCodecContext(vpssps, step)
    \/ QueuePacket_AssignPtr
    \/ QueuePacket_AssignCtrl

waitForCodecCtx_Copy ==
    \/ waitForCodecCtx_Test
    \/ waitForCodecCtx_CopyPtr
    \/ waitForCodecCtx_CopyCtrl

DecoderThread_Stop ==
    \/ DecoderThread_Stop_Clear
    \/ DecoderThread_Stop_Join

CtxInit ==
    /\ PipeInit /\ MapIdle /\ FilterIdle /\ PoseIdle /\ FovIdle /\ EngineIdle /\ InputIdle
    /\ PairIdle /\ ListenerIdle /\ RunIdle /\ CtxIdle /\ EyeRaceIdle /\ GlobalsIdle

CtxNext ==
    \/ QueuePacket_AssignCodecCtx
    \/ Run_TestToken
    \/ waitForCodecCtx_Copy
    \/ Run_Release
    \/ Run_Return
    \/ DecoderThread_Stop
    \/ CodecCtx_destroy_Step

CtxSpec == CtxInit /\ [][CtxNext]_vars

\* The copy in waitForCodecCtx and the assignment in QueuePacket are both
\* half done.
CodecCtxRaced == ctx_run_pc = "ptr_read" /\ ctx_qp_pc = "ptr_written"

\* C36 as stated: m_codecCtx is never read by the decode-consumer thread
\* (waitForCodecCtx) while QueuePacket assigns it, and the session Run
\* obtains is a whole one: a constructed, started CodecCtx that Run owns.
C36_CodecCtxNotRaced ==
    /\ ~CodecCtxRaced
    /\ (ctx_run_pc = "loop" /\ runCodecCtx.ptr # 0) =>
           /\ runCodecCtx.ctrl = runCodecCtx.ptr
           /\ ctx_session.codec = "started"
           /\ ctx_session.useCount >= 2

\* The pointer Run obtains, when it is not null, is that of a constructed
\* and started CodecCtx.
C36_ObtainedSessionStarted ==
    (ctx_run_pc = "loop" /\ runCodecCtx.ptr # 0) =>
        (ctx_session.codec = "started" /\ ctx_session.listener = "registered")

\* C39: Run never releases an output buffer to a codec that is stopped or
\* deleted: the session Run obtained stays alive until Run has returned; and
\* when a session is destroyed its codec is stopped before its image
\* listener is unregistered.
C39_NoReleaseToDeadCodec ==
    /\ ~ctxHist.releasedDead
    /\ (ctx_run_pc \in {"loop", "return"} /\ runCodecCtx.ptr # 0) =>
           (ctx_session.codec = "started" /\ ctx_session.useCount >= 1)
    /\ ctx_session.listener = "unregistered" => ctx_session.codec \in {"stopped", "deleted"}
    /\ ctx_session.codec \in {"stopped", "deleted"} => ctx_session.useCount = 0

\* Run released output buffers to its session and returned, and the session
\* has been destroyed.
C39_Witness ==
    /\ ctxHist.releases = MaxReleases
    /\ ctx_run_pc = "done"
    /\ ctx_session.listener = "unregistered"
    /\ ctx_session.codec = "deleted"

\* ---------------------------------------------------------------------------
\* m_lastEyeInfo, a plain ALXREyeInfo (input_thread.h, line 33): Update
\* compares it and assigns it on the input thread (input_thread.cpp, lines
\* 40-42 and 57), SetConnected assigns EyeInfoZero on its caller's thread
\* (input_thread.h, line 60; alxr_engine.cpp, lines 326-328 and 333).  Each
\* access to the struct is made float by float: the ipd, then the rest.
\* ---------------------------------------------------------------------------

\* Ticks of the input thread.
MaxRaceTicks == 2

\* Calls of SetConnected.
MaxRaceCalls == 2

OthersUnchangedInEyeRace ==
    UNCHANGED <<pipeVars, mapVars, globalVars, filterVars, poseVars, fovVars, engineVars, pairVars,
                listenerVars, runVars, ctxVars, enqueuedLog, releasedLog, inputHist>>

\* input_thread.cpp, lines 33-38: isConnected is loaded and GetEyeInfo asked.
Update_Load(got, newEyeInfo) ==
    /\ upd_eye_pc = "idle"
    /\ eyeRaceHist.ticks < MaxRaceTicks
    /\ upd_isConnected' = m_isConnected
    /\ upd_newEyeInfo' = newEyeInfo
    /\ upd_eye_pc' = IF m_isConnected /\ got THEN "cmp_ipd" ELSE "poll"
    /\ OthersUnchangedInEyeRace
    /\ UNCHANGED <<m_isConnected, m_lastEyeInfo, sc_pc, sc_connected, eyeRaceHist>>

\* Line 40: m_lastEyeInfo.ipd is read.
Update_CompareIpd ==
    /\ upd_eye_pc = "cmp_ipd"
    /\ upd_eye_pc' = IF AboveThreshold(upd_newEyeInfo.ipd, m_lastEyeInfo.ipd)
                     THEN "store_ipd" ELSE "cmp_left0"
    /\ OthersUnchangedInEyeRace
    /\ UNCHANGED <<m_isConnected, m_lastEyeInfo, upd_isConnected, upd_newEyeInfo, sc_pc,
                   sc_connected, eyeRaceHist>>

\* Line 41: m_lastEyeInfo.eyeFov[0].left is read.
Update_CompareLeft0 ==
    /\ upd_eye_pc = "cmp_left0"
    /\ upd_eye_pc' = IF AboveThreshold(upd_newEyeInfo.left[1], m_lastEyeInfo.left[1])
                     THEN "store_ipd" ELSE "cmp_left1"
    /\ OthersUnchangedInEyeRace
    /\ UNCHANGED <<m_isConnected, m_lastEyeInfo, upd_isConnected, upd_newEyeInfo, sc_pc,
                   sc_connected, eyeRaceHist>>

\* Line 42: m_lastEyeInfo.eyeFov[1].left is read.
Update_CompareLeft1 ==
    /\ upd_eye_pc = "cmp_left1"
    /\ upd_eye_pc' = IF AboveThreshold(upd_newEyeInfo.left[2], m_lastEyeInfo.left[2])
                     THEN "store_ipd" ELSE "poll"
    /\ OthersUnchangedInEyeRace
    /\ UNCHANGED <<m_isConnected, m_lastEyeInfo, upd_isConnected, upd_newEyeInfo, sc_pc,
                   sc_connected, eyeRaceHist>>

\* Line 57, m_lastEyeInfo = newEyeInfo: the ipd is written.
Update_StoreIpd ==
    /\ upd_eye_pc = "store_ipd"
    /\ m_lastEyeInfo' = [m_lastEyeInfo EXCEPT !.ipd = upd_newEyeInfo.ipd]
    /\ upd_eye_pc' = "store_rest"
    /\ OthersUnchangedInEyeRace
    /\ UNCHANGED <<m_isConnected, upd_isConnected, upd_newEyeInfo, sc_pc, sc_connected,
                   eyeRaceHist>>

\* Lines 57-59: the rest of the struct is written and the report sent.
Update_StoreRest ==
    /\ upd_eye_pc = "store_rest"
    /\ m_lastEyeInfo' = [upd_newEyeInfo EXCEPT !.ipd = m_lastEyeInfo.ipd]
    /\ upd_eye_pc' = "poll"
    /\ eyeRaceHist' = [eyeRaceHist EXCEPT !.sends = @ + 1]
    /\ OthersUnchangedInEyeRace
    /\ UNCHANGED <<m_isConnected, upd_isConnected, upd_newEyeInfo, sc_pc, sc_connected>>

\* Lines 63-70: PollActions and the tracking info; the tick ends.
Update_Poll ==
    /\ upd_eye_pc = "poll"
    /\ upd_eye_pc' = "idle"
    /\ eyeRaceHist' = [eyeRaceHist EXCEPT !.ticks = @ + 1]
    /\ OthersUnchangedInEyeRace
    /\ UNCHANGED <<m_isConnected, m_lastEyeInfo, upd_isConnected, upd_newEyeInfo, sc_pc,
                   sc_connected>>

\* input_thread.h, line 60, m_lastEyeInfo = EyeInfoZero: the ipd is written.
SetConnected_StoreIpd(connected) ==
    /\ sc_pc = "idle"
    /\ eyeRaceHist.calls < MaxRaceCalls
    /\ sc_connected' = connected
    /\ m_lastEyeInfo' = [m_lastEyeInfo EXCEPT !.ipd = EyeInfoZero.ipd]
    /\ sc_pc' = "store_rest"
    /\ eyeRaceHist' = [eyeRaceHist EXCEPT !.calls = @ + 1]
    /\ OthersUnchangedInEyeRace
    /\ UNCHANGED <<m_isConnected, upd_eye_pc, upd_isConnected, upd_newEyeInfo>>

\* Line 60: the rest of the struct is written.
SetConnected_StoreRest ==
    /\ sc_pc = "store_rest"
    /\ m_lastEyeInfo' = [EyeInfoZero EXCEPT !.ipd = m_lastEyeInfo.ipd]
    /\ sc_pc' = "store_flag"
    /\ OthersUnchangedInEyeRace
    /\ UNCHANGED <<m_isConnected, upd_eye_pc, upd_isConnected, upd_newEyeInfo, sc_connected,
                   eyeRaceHist>>

\* Line 61: m_isConnected = connected.
SetConnected_StoreFlag ==
    /\ sc_pc = "store_flag"
    /\ m_isConnected' = sc_connected
    /\ sc_pc' = "idle"
    /\ OthersUnchangedInEyeRace
    /\ UNCHANGED <<m_lastEyeInfo, upd_eye_pc, upd_isConnected, upd_newEyeInfo, sc_connected,
                   eyeRaceHist>>

XrInputThread_Update_Steps ==
    \/ \E got \in BOOLEAN, newEyeInfo \in EyeInfoSamples : Update_Load(got, newEyeInfo)
    \/ Update_CompareIpd
    \/ Update_CompareLeft0
    \/ Update_CompareLeft1
    \/ Update_StoreIpd
    \/ Update_StoreRest
    \/ Update_Poll

XrInputThread_SetConnected_Steps ==
    \/ \E connected \in BOOLEAN : SetConnected_StoreIpd(connected)
    \/ SetConnected_StoreRest
    \/ SetConnected_StoreFlag

EyeRaceInit ==
    /\ PipeInit /\ MapIdle /\ FilterIdle /\ PoseIdle /\ FovIdle /\ EngineIdle /\ InputIdle
    /\ PairIdle /\ ListenerIdle /\ RunIdle /\ CtxIdle /\ EyeRaceIdle /\ GlobalsIdle

EyeRaceNext ==
    \/ XrInputThread_Update_Steps
    \/ XrInputThread_SetConnected_Steps

EyeRaceSpec == EyeRaceInit /\ [][EyeRaceNext]_vars

\* Update is between two of its reads of m_lastEyeInfo, or inside its
\* assignment.
UpdateAccessing == upd_eye_pc \in {"cmp_left0", "cmp_left1", "store_rest"}

\* SetConnected is inside its assignment of m_lastEyeInfo.
SetConnectedWriting == sc_pc = "store_rest"

\* C37 as stated: m_lastEyeInfo is never written by one thread while
\* another reads or writes it: the accesses of SetConnected and of Update
\* never overlap.
C37_LastEyeInfoNotRaced == ~(UpdateAccessing /\ SetConnectedWriting)

\* m_isConnected, an atomic, is what the two threads share safely: an
\* Update that loaded it as false does not touch m_lastEyeInfo.
C37_DisconnectedTickLeavesEyeInfo ==
    ~upd_isConnected => upd_eye_pc \in {"idle", "poll"}

\* ---------------------------------------------------------------------------
\* alxr_init and alxr_destroy on the globals gClientCtx and gProgram
\* (alxr_engine.cpp, lines 46-47, 77-94, 156-192 and 201-218), called one
\* after the other by the embedding application.
\* ---------------------------------------------------------------------------

\* Calls of alxr_init and of alxr_destroy on an engine without context.
MaxInitCalls == 3

\* alxr_engine.cpp, lines 77-83.
is_valid_inputOnly(rCtx) == rCtx.inputSend
is_valid(rCtx) ==
    rCtx.inputSend /\ rCtx.viewsConfigSend /\ rCtx.pathStringToHash /\ rCtx.requestIDR

\* The pointers alxr_init is called with.
ClientCtxPointers ==
    {NullClientCtx} \cup
    {ClientCtx(a, b, c, d) : a \in BOOLEAN, b \in BOOLEAN, c \in BOOLEAN, d \in BOOLEAN}

\* Where alxr_init throws: nowhere; in make_shared (line 93); between the
\* assignment of gClientCtx and that of gProgram (lines 94-158); between
\* the assignment of gProgram and Start (lines 159-178); in the std::thread
\* constructor of Start (line 179).
ThrowPoints == {"none", "clientCtx", "platform", "program", "thread"}

\* The engine before the first alxr_init: the globals are null.
EngineUninitialised ==
    /\ gProgram = FALSE
    /\ gDecoderThread = FALSE
    /\ gRenderMutex = "free"
    /\ m_renderTex = NoTexture
    /\ m_currentVideoTex = 0
    /\ m_videoTextures = <<NullFrameIndex, NullFrameIndex>>
    /\ currentTextureIdx = NoTexture
    /\ m_fovDecodeParams = NoFovParams
    /\ main_pc = "idle"
    /\ net_pc = "idle"
    /\ net_config = StreamConfig(FALSE, FoveationDefault)
    /\ upd_pc = "idle"
    /\ upd_freeIndex = 0
    /\ engineHist = EngineHistInit

CallRecord(call, rCtx, ret, throwAt) ==
    [calls |-> initHist.calls + 1, call |-> call, rCtx |-> rCtx, ret |-> ret,
     throwAt |-> throwAt, programBefore |-> gProgram, clientCtxBefore |-> gClientCtx,
     runningBefore |-> m_isRunning]

\* alxr_init (lines 85-192) called with rCtx, throwing at throwAt.
alxr_init(rCtx, throwAt) ==
    /\ main_pc \in {"idle", "destroyed"}
    /\ net_pc = "idle"
    /\ upd_pc = "idle"
    /\ initHist.calls < MaxInitCalls
    /\ LET accepted == ~rCtx.null /\ is_valid(rCtx)
           copied == accepted /\ throwAt # "clientCtx"
           created == copied /\ throwAt # "platform"
           stopped == created /\ throwAt # "program"
           started == stopped /\ throwAt # "thread"
       IN  /\ ~accepted => throwAt = "none"
           /\ gClientCtx' = IF copied THEN rCtx ELSE gClientCtx
           /\ gProgram' = IF created THEN TRUE ELSE gProgram
           /\ m_isConnected' = IF stopped THEN FALSE ELSE m_isConnected
           /\ m_isRunning' = IF stopped THEN TRUE ELSE m_isRunning
           /\ m_inputThread' = IF stopped THEN started ELSE m_inputThread
           /\ it_pc' = IF started THEN "entry" ELSE IF stopped THEN "idle" ELSE it_pc
           /\ initHist' = CallRecord("init", rCtx, started, throwAt)
    /\ main_pc' = "idle"
    /\ UNCHANGED <<decoderVars, mapVars, eyeRaceVars, ctxVars, listenerVars, pairVars,
                   filterVars, poseVars, fovVars, renderMode, gDecoderThread, gRenderMutex,
                   ringVars, m_fovDecodeParams, net_pc, net_config, upd_pc, upd_freeIndex,
                   engineHist, m_lastEyeInfo, inputHist, m_targetDurationUS, own_pc,
                   nextWakeTime, steadyNow, runHist>>

\* alxr_destroy, lines 202-206: without a client context it returns.
alxr_destroy_Uninitialised ==
    /\ main_pc \in {"idle", "destroyed"}
    /\ net_pc = "idle"
    /\ gClientCtx.null
    /\ initHist.calls < MaxInitCalls
    /\ initHist' = CallRecord("destroy_uninitialised", NullClientCtx, FALSE, "none")
    /\ UNCHANGED <<pipeVars, mapVars, eyeRaceVars, ctxVars, listenerVars, pairVars,
                   filterVars, poseVars, fovVars, engineVars, inputVars, runVars,
                   enqueuedLog, releasedLog, gClientCtx>>

\* alxr_destroy, lines 202-217, with a client context and no program (an
\* alxr_init that threw before line 158): the input thread and the decoder
\* thread are stopped and the context released.
alxr_destroy_NoProgram ==
    /\ main_pc \in {"idle", "destroyed"}
    /\ net_pc = "idle"
    /\ ~gClientCtx.null
    /\ ~gProgram
    /\ Joinable(upd_pc)
    /\ m_isConnected' = FALSE
    /\ m_isRunning' = FALSE
    /\ m_inputThread' = FALSE
    /\ it_pc' = "idle"
    /\ gDecoderThread' = FALSE
    /\ gProgram' = FALSE
    /\ gClientCtx' = NullClientCtx
    /\ main_pc' = "destroyed"
    /\ initHist' = [initHist EXCEPT !.call = "destroy"]
    /\ UNCHANGED <<decoderVars, mapVars, eyeRaceVars, ctxVars, listenerVars, pairVars,
                   filterVars, poseVars, fovVars, renderMode, gRenderMutex,
                   ringVars, m_fovDecodeParams, net_pc, net_config, upd_pc, upd_freeIndex,
                   engineHist, m_lastEyeInfo, inputHist, m_targetDurationUS, own_pc,
                   nextWakeTime, steadyNow, runHist>>

GlobalsInit ==
    /\ PipeInit /\ MapIdle /\ FilterIdle /\ PoseIdle /\ FovIdle /\ InputIdle
    /\ PairIdle /\ ListenerIdle /\ RunIdle /\ CtxIdle /\ EyeRaceIdle
    /\ EngineUninitialised
    /\ gClientCtx = NullClientCtx
    /\ initHist = InitHistInit

GlobalsNext ==
    \/ \E rCtx \in ClientCtxPointers, throwAt \in ThrowPoints : alxr_init(rCtx, throwAt)
    \/ alxr_destroy
    \/ alxr_destroy_NoProgram
    \/ alxr_destroy_Uninitialised

GlobalsSpec == GlobalsInit /\ [][GlobalsNext]_vars

\* The argument is null or lacks one of the four required callbacks.
NotSetUp(rCtx) ==
    \/ rCtx.null
    \/ ~rCtx.inputSend
    \/ ~rCtx.viewsConfigSend
    \/ ~rCtx.pathStringToHash
    \/ ~rCtx.requestIDR

GlobalsAsBefore ==
    /\ gProgram = initHist.programBefore
    /\ gClientCtx = initHist.clientCtxBefore
    /\ m_isRunning = initHist.runningBefore

\* C40: after any sequence of alxr_init calls (with a valid or an invalid
\* context, returning or throwing) and alxr_destroy calls, gProgram is
\* non-null only if gClientCtx is; an alxr_init with a null context or a
\* context that lacks a required callback returns false and changes neither
\* global; an alxr_destroy on an engine that is not initialised changes
\* nothing.
C40_ProgramOnlyWithClientCtx ==
    /\ gProgram => ~gClientCtx.null
    /\ (initHist.call = "init" /\ NotSetUp(initHist.rCtx)) =>
           (~initHist.ret /\ GlobalsAsBefore)
    /\ initHist.call = "init" /\ initHist.ret => (gProgram /\ gClientCtx = initHist.rCtx)
    /\ initHist.call = "destroy_uninitialised" =>
           (GlobalsAsBefore /\ ~gProgram /\ gClientCtx.null)

\* An initialised engine has refused a context that lacks a callback, after
\* an earlier call.
C40_Witness ==
    /\ initHist.call = "init"
    /\ ~initHist.rCtx.null
    /\ NotSetUp(initHist.rCtx)
    /\ initHist.calls >= 2
    /\ gProgram
    /\ m_isRunning

====
